---- MODULE Spec2Model ----
(***************************************************************************)
(* Question Matcher (src/src/utils/question_matcher.py) and Code           *)
(* Transformer (src/src/providers/smart_no_api/generator.py).              *)
(*                                                                         *)
(* Texts are TLA+ strings; Len, SubSeq and \o work on them as on Python    *)
(* str, so substring tests and regular expressions are computed on the     *)
(* real characters.                                                        *)
(***************************************************************************)
EXTENDS Integers, Sequences, FiniteSets, TLC

(***************************************************************************)
(* String primitives (Python str methods used by both components).         *)
(***************************************************************************)
CharAt(s, i) == SubSeq(s, i, i)

\* Python `p in s`
Contains(s, p) ==
    \E i \in 1..(Len(s) - Len(p) + 1) : SubSeq(s, i, i + Len(p) - 1) = p

\* Python s.startswith(p)
StartsWith(s, p) == Len(p) <= Len(s) /\ SubSeq(s, 1, Len(p)) = p

\* Python s.find(p), 1-based; 0 when absent
Find(s, p) ==
    LET hits == {i \in 1..(Len(s) - Len(p) + 1) : SubSeq(s, i, i + Len(p) - 1) = p}
    IN  IF hits = {} THEN 0 ELSE CHOOSE i \in hits : \A j \in hits : i <= j

UpperChars == "ABCDEFGHIJKLMNOPQRSTUVWXYZ"
LowerChars == "abcdefghijklmnopqrstuvwxyz"
DigitChars == "0123456789"

\* characters matched by \s
IsSpace(c) == c \in {" ", "\t", "\n", "\r", "\f"}

\* characters matched by \w
IsWord(c) ==
    Contains(LowerChars, c) \/ Contains(UpperChars, c) \/ Contains(DigitChars, c) \/ c = "_"

LowerChar(c) ==
    LET k == Find(UpperChars, c) IN IF k = 0 THEN c ELSE CharAt(LowerChars, k)

RECURSIVE Lower(_)
Lower(s) == IF s = "" THEN "" ELSE LowerChar(CharAt(s, 1)) \o Lower(SubSeq(s, 2, Len(s)))

\* number of leading whitespace characters: len(s) - len(s.lstrip())
RECURSIVE LeadingSpaces(_)
LeadingSpaces(s) ==
    IF s = "" \/ ~IsSpace(CharAt(s, 1)) THEN 0 ELSE 1 + LeadingSpaces(SubSeq(s, 2, Len(s)))

RECURSIVE TrailingSpaces(_)
TrailingSpaces(s) ==
    IF s = "" \/ ~IsSpace(CharAt(s, Len(s))) THEN 0
    ELSE 1 + TrailingSpaces(SubSeq(s, 1, Len(s) - 1))

LStrip(s) == SubSeq(s, LeadingSpaces(s) + 1, Len(s))
RStrip(s) == SubSeq(s, 1, Len(s) - TrailingSpaces(s))
Strip(s)  == RStrip(LStrip(s))

\* ' ' * n
RECURSIVE Spaces(_)
Spaces(n) == IF n <= 0 THEN "" ELSE " " \o Spaces(n - 1)

(***************************************************************************)
(* QuestionMatcher._normalize_text                                         *)
(***************************************************************************)
\* re.sub(r'[^\w\s]', '', text)
RECURSIVE RemovePunctuation(_)
RemovePunctuation(s) ==
    IF s = "" THEN ""
    ELSE LET c == CharAt(s, 1)
             rest == RemovePunctuation(SubSeq(s, 2, Len(s)))
         IN  IF IsWord(c) \/ IsSpace(c) THEN c \o rest ELSE rest

\* re.sub(r'\s+', ' ', text)
RECURSIVE CollapseSpaces(_)
CollapseSpaces(s) ==
    IF s = "" THEN ""
    ELSE IF IsSpace(CharAt(s, 1))
         THEN " " \o CollapseSpaces(LStrip(s))
         ELSE CharAt(s, 1) \o CollapseSpaces(SubSeq(s, 2, Len(s)))

\* a normalization that leaves the ends as they are
NormalizeUnstripped(text) == CollapseSpaces(RemovePunctuation(Lower(text)))

NormalizeText(text) == Strip(CollapseSpaces(RemovePunctuation(Lower(text))))

(***************************************************************************)
(* difflib.SequenceMatcher(None, a, b).ratio() as find_question calls it:  *)
(* no junk (texts are far shorter than the 200-element autojunk limit).    *)
(* A score is kept exact as <<numerator, denominator>>.                    *)
(***************************************************************************)
\* length of the common prefix of a[i..] and b[j..]
RECURSIVE CommonLen(_, _, _, _)
CommonLen(a, i, b, j) ==
    IF i > Len(a) \/ j > Len(b) \/ CharAt(a, i) # CharAt(b, j) THEN 0
    ELSE 1 + CommonLen(a, i + 1, b, j + 1)

\* find_longest_match: longest block, earliest in a, then earliest in b
LongestMatch(a, b) ==
    LET cand == {<<i, j>> : i \in 1..Len(a), j \in 1..Len(b)}
        size(p) == CommonLen(a, p[1], b, p[2])
        best == CHOOSE p \in cand :
                   \A r \in cand :
                      \/ size(p) > size(r)
                      \/ /\ size(p) = size(r)
                         /\ \/ p[1] < r[1]
                            \/ (p[1] = r[1] /\ p[2] <= r[2])
    IN  <<best[1], best[2], size(best)>>

\* total size of get_matching_blocks()
RECURSIVE Matches(_, _)
Matches(a, b) ==
    IF a = "" \/ b = "" THEN 0
    ELSE LET m == LongestMatch(a, b)
         IN  IF m[3] = 0 THEN 0
             ELSE m[3]
                  + Matches(SubSeq(a, 1, m[1] - 1), SubSeq(b, 1, m[2] - 1))
                  + Matches(SubSeq(a, m[1] + m[3], Len(a)), SubSeq(b, m[2] + m[3], Len(b)))

\* a ratio that forgets the factor 2
MatchedShare(a, b) ==
    IF Len(a) + Len(b) = 0 THEN <<1, 1>> ELSE <<Matches(a, b), Len(a) + Len(b)>>

\* _calculate_ratio: 2.0 * matches / length, and 1.0 when length is 0
Ratio(a, b) ==
    IF Len(a) + Len(b) = 0 THEN <<1, 1>> ELSE <<2 * Matches(a, b), Len(a) + Len(b)>>

\* a comparison that lets a later entry with an equal score replace the best one
ScoreGTOrEqual(s, t) == s[1] * t[2] >= t[1] * s[2]

\* comparisons of scores (denominators are positive)
ScoreGT(s, t) == s[1] * t[2] > t[1] * s[2]
\* score >= threshold, the threshold given in hundredths
ScoreGE(s, pct) == s[1] * 100 >= pct * s[2]

(***************************************************************************)
(* The page collaborator.  A page is the list of its heading elements in   *)
(* document order; `visible` is what is_visible() answers, `raises` says   *)
(* that a query on the element raises (detached element), and allRaises    *)
(* holds the tags for which page.locator(tag).all() itself raises.         *)
(***************************************************************************)
\* a tag list that starts with the deepest headings
LevelsDeepestFirst == <<"h6", "h5", "h4", "h3", "h2", "h1">>

\* the tags refresh_heading_pool goes through, in its order
Levels == <<"h1", "h2", "h3", "h4", "h5", "h6">>

Elem(l, t, v, r) == [level |-> l, text |-> t, visible |-> v, raises |-> r]

Pages ==
    << [elems |-> <<Elem("h2", "Name?", TRUE, FALSE), Elem("h2", " Age ", TRUE, FALSE)>>,
        allRaises |-> {}],
       [elems |-> <<Elem("h4", "NAMES!", TRUE, FALSE), Elem("h3", "Age", TRUE, FALSE),
                    Elem("h1", "Names", TRUE, FALSE)>>,
        allRaises |-> {}],
       [elems |-> <<Elem("h2", "Name!", FALSE, FALSE), Elem("h2", "Nose", TRUE, TRUE),
                    Elem("h2", "???", TRUE, FALSE)>>,
        allRaises |-> {"h1"}] >>

\* question texts the caller passes
Questions == {"Name?", "name", "Names"}

\* the heading of the fuzzy-matching demonstration and two spellings of it
ScenarioHeading == "What is your favorite color?"
ScenarioQuestions == {"What is ur favorite color?", "What's your favorite color?"}

\* a page that shows this heading alone
ScenarioPage ==
    [elems |-> <<Elem("h2", ScenarioHeading, TRUE, FALSE)>>, allRaises |-> {}]
AllPages == Pages \o <<ScenarioPage>>
ScenarioPageIndex == Len(AllPages)

\* outcomes of a blocking page call: it succeeds, raises Playwright's TimeoutError or
\* raises another Playwright Error
Outcomes == {"ok", "timeout", "error"}

\* what the trace keeps of an outcome
Mark(outcome) == IF outcome = "ok" THEN "ok" ELSE "failed"

\* a Locator: page.locator(level).nth(nth); NoneLoc stands for Python None
Loc(l, n) == [level |-> l, nth |-> n]
NoneLoc == [level |-> "None", nth |-> 0]

fuzzy_threshold_default == 75
cache_ttl == 5

\* thresholds the matcher is constructed with, in hundredths
Thresholds == {0, fuzzy_threshold_default, 90, 100}
\* the thresholds of the demonstration
ScenarioThresholds == {fuzzy_threshold_default, 90}

\* the texts _normalize_text is tried on: an upper and a lower case letter, a digit,
\* the underscore, a punctuation mark and two kinds of whitespace
TextChars == {"A", "b", "1", "_", "?", " ", "\t"}
MaxTextLen == 5

\* bounds of the exploration
MaxNow == 10
MaxSearches == 2
MaxRetries == 2
MaxBatch == 2
StartNow == 5

VARIABLES
    page,             \* index of the page the browser currently shows
    now,              \* time.time()
    fuzzy_threshold,  \* self.fuzzy_threshold, in hundredths
    heading_pool,     \* self.heading_pool
    question_cache,   \* self.question_cache: normalized text -> Locator
    last_refresh,     \* self.last_refresh
    stats,            \* self.stats
    pc,               \* position of the running matcher method
    heading,          \* local `heading` of answer_question_optimized
    strategy,         \* index of the strategy the button cascade probes next
    button,           \* local `button`: index of the strategy that resolved it, 0 = None
    retry,            \* frame of answer_question_with_retry
    call,             \* the running / last finished call and its outcome
    checked,          \* locators whose is_visible() answered True during the last find_question
    resolved,         \* what find_question returned, per normalized question, since the
                      \* cache was last cleared
    trace,            \* the steps of the running / last finished call, in order, each
                      \* <<step, outcome>>
    batch             \* frame of check_questions_batch

mvars == <<page, now, fuzzy_threshold, heading_pool, question_cache, last_refresh, stats,
           pc, heading, strategy, button, retry, call, checked, resolved, trace, batch>>

\* the Code Transformer: the call running and the locals of its two loops
VARIABLES
    user_code,            \* the text the entry method was called with
    called,               \* the method called: "clean" or "wrap"
    tpc,                  \* "clean", "wrap", "done"; "off" when no call is running
    lines,                \* the lines of the loop that is running
    pos,                  \* index of the line the loop is at, from 1
    cleaned_lines,
    in_run_function,
    base_indent,
    origin,               \* for each cleaned line, the input line it came from
    wrapped_lines,
    inside_with_block,
    with_block_indent,
    next_action_optional,
    current_page_context,
    marks,                \* for each line of the wrap loop, its branch and output place
    wrapped,              \* whether _wrap_actions_for_resilience produced the result
    result                \* the text returned

tvars == <<user_code, called, tpc, lines, pos, cleaned_lines, in_run_function, base_indent,
           origin, wrapped_lines, inside_with_block, with_block_indent,
           next_action_optional, current_page_context, marks, wrapped, result>>

\* _normalize_text applied to a text, and to its own result
VARIABLES
    norm_text,    \* the text _normalize_text is called with
    norm_once,    \* what it returns
    norm_twice,   \* what it returns when called with that
    npc           \* "start", "once", "twice"; "off" when no such call is made

nvars == <<norm_text, norm_once, norm_twice, npc>>

\* one Generator object called several times over
VARIABLES
    pending,      \* the texts the calls still to come will be given
    outputs       \* for each call that returned, its text and what it returned

rvars == <<pending, outputs>>

\* run_iteration of the generated script
VARIABLES
    script,              \* the lines of run_iteration from `try:` on, parsed
    ln,                  \* the line of the statement about to run, 0 when none
    exiting,             \* the with statement whose suite has completed, 0 when none
    retry_attempt,
    script_max_retries,  \* max_retries of the generated script
    progressive_delays,
    delay,
    exc,                 \* the exception being handled: "none", "timeout", "error"
    events,              \* what the retry loop running, or last run, did
    acted,               \* the action statements that were executed
    thrown,              \* the last exception raised and the statement that raised it
    uncaught,             \* the exception that reached the handler of run_iteration
    loop_at,             \* the for statement running, or last run
    returned             \* what run_iteration returned: "none", "True", "False"

xvars == <<script, ln, exiting, retry_attempt, script_max_retries, progressive_delays, delay, exc,
           events, acted, thrown, uncaught, loop_at, returned>>

\* answer_question_with_retry between its attempts
VARIABLES
    waits                \* the milliseconds of every page.wait_for_timeout of the running,
                         \* or last finished, call, in order

wvars == <<waits>>

\* the main loop of the generated script
VARIABLES
    csv_rows,            \* len(csv_data)
    iteration_number,    \* the number of the row the loop is at, 0 before the first
    success_count,
    fail_count,
    profile_uuid,        \* "None" or a uuid
    main_pc              \* the call of the row the loop is about to make

lvars == <<csv_rows, iteration_number, success_count, fail_count, profile_uuid, main_pc>>

\* the QuestionMatcher of generate_matcher_code next to the library class
VARIABLES
    embedded,            \* the fields of the embedded matcher: heading_pool,
                         \* question_cache, last_refresh, fuzzy_threshold
    layout,              \* how many buttons of the wanted name the page shows in each
                         \* region around the heading
    answered             \* the call both matchers made last and what each returned

evars == <<embedded, layout, answered>>

vars == <<mvars, tvars, nvars, rvars, xvars, wvars, lvars, evars>>

NoRetry == [active |-> FALSE, attempt |-> 0, max_retries |-> 0, q |-> ""]

\* questions: the argument; looked_up: how many of them the loop has taken;
\* results: the dict it fills
NoBatch == [active |-> FALSE, questions |-> << >>, looked_up |-> 0, results |-> << >>]

\* pool_before and cache_before: self.heading_pool and self.question_cache as the
\* call found them
NoCall == [op |-> "none", q |-> "", refresh |-> FALSE, max_retries |-> 0, loc |-> NoneLoc,
           hit |-> FALSE, scored |-> 0, rebuilt |-> FALSE, result |-> "none",
           pool_before |-> << >>, cache_before |-> << >>]

\* the record c of a call that begins in this state
Began(c) == [c EXCEPT !.pool_before = heading_pool, !.cache_before = question_cache]

MatcherInit ==
    /\ page \in DOMAIN Pages
    /\ now = StartNow
    /\ fuzzy_threshold \in Thresholds
    /\ heading_pool = << >>
    /\ question_cache = << >>
    /\ last_refresh = 0
    /\ stats = [cache_hits |-> 0, cache_misses |-> 0, questions_found |-> 0,
                questions_not_found |-> 0, total_searches |-> 0]
    /\ pc = "idle"
    /\ heading = NoneLoc
    /\ strategy = 0
    /\ button = 0
    /\ retry = NoRetry
    /\ call = NoCall
    /\ checked = {}
    /\ resolved = << >>
    /\ trace = << >>
    /\ batch = NoBatch
    /\ waits = << >>

(***************************************************************************)
(* refresh_heading_pool                                                    *)
(***************************************************************************)
\* number of elements with tag l among the first i elements
RECURSIVE CountLevel(_, _, _)
CountLevel(elems, l, i) ==
    IF i = 0 THEN 0
    ELSE CountLevel(elems, l, i - 1) + (IF elems[i].level = l THEN 1 ELSE 0)

\* the inner loop over page.locator(level).all(), from element i on
RECURSIVE LevelEntries(_, _, _)
LevelEntries(elems, l, i) ==
    IF i > Len(elems) THEN << >>
    ELSE LET e == elems[i]
             text == Strip(e.text)
             keep == e.level = l /\ ~e.raises /\ e.visible /\ text # ""
             entry == [locator |-> Loc(l, CountLevel(elems, l, i) - 1), text |-> text,
                       normalized |-> NormalizeText(text), level |-> l]
         IN  (IF keep THEN <<entry>> ELSE << >>) \o LevelEntries(elems, l, i + 1)

\* an outer loop that gives up at the first tag whose enumeration raises
RECURSIVE BuildPoolAborting(_, _)
BuildPoolAborting(pg, k) ==
    IF k > Len(Levels) \/ Levels[k] \in pg.allRaises THEN << >>
    ELSE LevelEntries(pg.elems, Levels[k], 1) \o BuildPoolAborting(pg, k + 1)

\* the outer loop over the six tags, from tag k on
RECURSIVE BuildPool(_, _)
BuildPool(pg, k) ==
    IF k > Len(Levels) THEN << >>
    ELSE (IF Levels[k] \in pg.allRaises THEN << >> ELSE LevelEntries(pg.elems, Levels[k], 1))
         \o BuildPool(pg, k + 1)

\* a TTL test that still holds the pool when exactly cache_ttl seconds have passed
RebuildsAfterTTL(force) == force \/ (now - last_refresh) > cache_ttl

\* the TTL test: the pool is rebuilt unless `not force and (now - last_refresh) < cache_ttl`
Rebuilds(force) == force \/ ~((now - last_refresh) < cache_ttl)

\* the pool a rebuild produces on each page
PagePool == [p \in DOMAIN AllPages |-> BuildPool(AllPages[p], 1)]

PoolAfterRefresh(force) ==
    IF Rebuilds(force) THEN PagePool[page] ELSE heading_pool

LastAfterRefresh(force) == IF Rebuilds(force) THEN now ELSE last_refresh

PoolLocators(pool) == {pool[i].locator : i \in DOMAIN pool}

(***************************************************************************)
(* find_question                                                           *)
(***************************************************************************)
\* a cache keyed by the text as the caller wrote it
CacheKeyRaw(question_text) == question_text

\* the key under which find_question looks a question up and stores it
CacheKey(question_text) == NormalizeText(question_text)

KeyOf == [q \in Questions \cup ScenarioQuestions |-> CacheKey(q)]
NormOf == [q \in Questions \cup ScenarioQuestions |-> NormalizeText(q)]

\* the scores find_question can compute on these pages
PoolTexts ==
    UNION {{PagePool[p][i].normalized : i \in DOMAIN PagePool[p]} : p \in DOMAIN AllPages}
Score == [a \in {KeyOf[q] : q \in DOMAIN KeyOf}, b \in PoolTexts |-> Ratio(a, b)]

\* the scoring loop from pool entry i on; idx = 0 stands for best_match = None
RECURSIVE BestMatch(_, _, _, _, _)
BestMatch(nq, pool, i, idx, score) ==
    IF i > Len(pool) THEN [idx |-> idx, score |-> score]
    ELSE LET s == Score[nq, pool[i].normalized]
         IN  IF ScoreGT(s, score) THEN BestMatch(nq, pool, i + 1, i, s)
             ELSE BestMatch(nq, pool, i + 1, idx, score)

\* a find_question that never looks into the cache
CacheNeverHit(cache, key) == FALSE

\* the cache test that ends find_question early
CacheHit(cache, key) == key \in DOMAIN cache

\* an acceptance test that forgets the threshold
AcceptsAnyMatch(bm, threshold) == bm.idx # 0

\* an acceptance test that takes identical texts only
AcceptsIdentical(bm, threshold) == bm.idx # 0 /\ ScoreGE(bm.score, 100)

\* the acceptance test `best_match and best_score >= self.fuzzy_threshold`
Accepts(bm, threshold) == bm.idx # 0 /\ ScoreGE(bm.score, threshold)

\* what find_question decides once the pool is in place: key is the normalized
\* question, bm the outcome of the scoring loop over pool
FindInPool(pool, last, rebuilt, key, bm) ==
    LET hit   == CacheHit(question_cache, key)
        found == ~hit /\ Accepts(bm, fuzzy_threshold)
        loc   == IF hit THEN question_cache[key]
                 ELSE IF found THEN pool[bm.idx].locator ELSE NoneLoc
    IN  [pool |-> pool,
         last |-> last,
         rebuilt |-> rebuilt,
         cache |-> IF found
                   THEN [k \in DOMAIN question_cache \cup {key} |->
                            IF k = key THEN loc ELSE question_cache[k]]
                   ELSE question_cache,
         stats |-> [stats EXCEPT
                      !.total_searches = @ + 1,
                      !.cache_hits = @ + (IF hit THEN 1 ELSE 0),
                      !.cache_misses = @ + (IF hit THEN 0 ELSE 1),
                      !.questions_found = @ + (IF found THEN 1 ELSE 0),
                      !.questions_not_found = @ + (IF ~hit /\ ~found THEN 1 ELSE 0)],
         loc |-> loc,
         hit |-> hit,
         scored |-> IF hit THEN 0 ELSE Len(pool)]

\* the scoring loop over the pool find_question works on
ScorePool(pool, key) == BestMatch(key, pool, 1, 0, <<0, 1>>)

\* find_question on a given pool
FindOnPool(pool, last, rebuilt, key) == FindInPool(pool, last, rebuilt, key, ScorePool(pool, key))

\* everything one find_question call computes
FindQuestionResult(question_text, refresh) ==
    FindOnPool(IF refresh THEN PoolAfterRefresh(FALSE) ELSE heading_pool,
               IF refresh THEN LastAfterRefresh(FALSE) ELSE last_refresh,
               refresh /\ Rebuilds(FALSE),
               KeyOf[question_text])

\* the first heading each normalized question was resolved to since the cache was cleared
Resolve(nq, loc) ==
    IF loc = NoneLoc \/ nq \in DOMAIN resolved
    THEN resolved
    ELSE [k \in DOMAIN resolved \cup {nq} |-> IF k = nq THEN loc ELSE resolved[k]]

\* a find_question that counts the miss before it looks into the cache
ApplyFindMissFirst(question_text, r) ==
    /\ heading_pool' = r.pool
    /\ last_refresh' = r.last
    /\ question_cache' = r.cache
    /\ stats' = [r.stats EXCEPT !.cache_misses = stats.cache_misses + 1]
    /\ checked' = IF r.rebuilt THEN PoolLocators(r.pool) ELSE {}
    /\ resolved' = Resolve(NormOf[question_text], r.loc)

\* a find_question that returns what it found without storing it
ApplyFindUncached(question_text, r) ==
    /\ heading_pool' = r.pool
    /\ last_refresh' = r.last
    /\ question_cache' = question_cache
    /\ stats' = r.stats
    /\ checked' = IF r.rebuilt THEN PoolLocators(r.pool) ELSE {}
    /\ resolved' = Resolve(NormOf[question_text], r.loc)

\* the assignments of one find_question call to the matcher's fields
ApplyFind(question_text, r) ==
    /\ heading_pool' = r.pool
    /\ last_refresh' = r.last
    /\ question_cache' = r.cache
    /\ stats' = r.stats
    /\ checked' = IF r.rebuilt THEN PoolLocators(r.pool) ELSE {}
    /\ resolved' = Resolve(NormOf[question_text], r.loc)

FindEvent(r) ==
    <<"find_question", IF r.hit THEN "hit" ELSE IF r.loc # NoneLoc THEN "found" ELSE "none">>

\* matcher.refresh_heading_pool(force) called directly
RefreshHeadingPool(force) ==
    /\ pc = "idle"
    /\ heading_pool' = PoolAfterRefresh(force)
    /\ last_refresh' = LastAfterRefresh(force)
    /\ call' = Began([NoCall EXCEPT !.op = "refresh_heading_pool", !.refresh = force,
                                    !.rebuilt = Rebuilds(force), !.result = "returned"])
    /\ trace' = IF Rebuilds(force) THEN << <<"refresh", "ok">> >> ELSE << >>
    /\ pc' = "done"
    /\ UNCHANGED <<page, now, fuzzy_threshold, question_cache, stats, heading, strategy,
                   button, retry, checked, resolved>>
    /\ UNCHANGED batch
    /\ UNCHANGED <<tvars, nvars, rvars, xvars, wvars, lvars, evars>>

\* find_question returning r to its caller
FindQuestionReturns(question_text, refresh, r) ==
    /\ ApplyFind(question_text, r)
    /\ call' = Began([NoCall EXCEPT !.op = "find_question", !.q = question_text,
                                    !.refresh = refresh, !.loc = r.loc, !.hit = r.hit,
                                    !.scored = r.scored, !.rebuilt = r.rebuilt,
                                    !.result = "returned"])
    /\ trace' = <<FindEvent(r)>>

\* matcher.find_question(question_text, refresh) called directly
FindQuestion(question_text, refresh) ==
    /\ pc = "idle"
    /\ stats.total_searches < MaxSearches
    /\ FindQuestionReturns(question_text, refresh, FindQuestionResult(question_text, refresh))
    /\ pc' = "done"
    /\ UNCHANGED <<page, now, fuzzy_threshold, heading, strategy, button, retry>>
    /\ UNCHANGED batch
    /\ UNCHANGED <<tvars, nvars, rvars, xvars, wvars, lvars, evars>>

(***************************************************************************)
(* answer_question_optimized and the button cascade it runs                *)
(***************************************************************************)
\* a strategies list that looks among the following siblings first
StrategyNamesSiblingsFirst ==
    <<"Following siblings", "Parent (..)", "Grandparent (../..)",
      "Great-grandparent (../../..)", "Global search">>

\* the names of the strategies list of find_answer_button_near_question, in list order
StrategyNames ==
    <<"Parent (..)", "Grandparent (../..)", "Great-grandparent (../../..)",
      "Following siblings", "Global search">>

\* a handler written as `except PlaywrightTimeout`
CaughtTimeoutOnly(outcome) == outcome = "timeout"

\* `except Exception` around a page call: Playwright's TimeoutError and Error are both caught
CaughtByExceptException(outcome) == outcome \in {"timeout", "error"}

\* an exception leaves the running method and its callers
Raise ==
    /\ pc' = "done"
    /\ retry' = NoRetry
    /\ call' = [call EXCEPT !.result = "Raised"]

\* answer_question_optimized returns v: to the caller, or into the loop of
\* answer_question_with_retry (`if self.answer_question_optimized(...): return True`)
AQOReturn(v, c, t) ==
    /\ trace' = Append(t, <<"return", v>>)
    /\ IF retry.active
       THEN IF v = "True"
            THEN /\ pc' = "done"
                 /\ retry' = NoRetry
                 /\ call' = [c EXCEPT !.result = "True"]
            ELSE /\ pc' = "retry_loop"
                 /\ retry' = [retry EXCEPT !.attempt = @ + 1]
                 /\ call' = c
       ELSE /\ pc' = "done"
            /\ retry' = retry
            /\ call' = [c EXCEPT !.result = v]

\* the record of an answer_question_optimized call whose find_question returned r
AQOCallRecord(question_text, r) ==
    IF pc = "idle"
    THEN Began([NoCall EXCEPT !.op = "answer_question_optimized", !.q = question_text,
                              !.refresh = TRUE, !.loc = r.loc, !.hit = r.hit,
                              !.scored = r.scored, !.rebuilt = r.rebuilt,
                              !.result = "pending"])
    ELSE [call EXCEPT !.loc = r.loc, !.hit = r.hit, !.scored = r.scored,
                      !.rebuilt = r.rebuilt]

\* `if not heading: return False`, else on to the button cascade
AQOAfterFind(loc, c, t) ==
    /\ heading' = loc
    /\ button' = 0
    /\ IF loc = NoneLoc
       THEN strategy' = 0 /\ AQOReturn("False", c, t)
       ELSE /\ strategy' = 1
            /\ pc' = "aqo_cascade"
            /\ retry' = retry
            /\ call' = c
            /\ trace' = t

\* answer_question_optimized once find_question returned r
AQOFound(question_text, r) ==
    /\ ApplyFind(question_text, r)
    /\ AQOAfterFind(r.loc, AQOCallRecord(question_text, r),
                    (IF pc = "idle" THEN << >> ELSE trace) \o <<FindEvent(r)>>)

\* stage 1 of answer_question_optimized: heading = self.find_question(question_text)
AnswerQuestionOptimized(question_text) ==
    /\ \/ pc = "idle" /\ stats.total_searches < MaxSearches
       \/ pc = "retry_attempt" /\ question_text = retry.q
    /\ AQOFound(question_text, FindQuestionResult(question_text, TRUE))
    /\ UNCHANGED <<page, now, fuzzy_threshold>>
    /\ UNCHANGED batch
    /\ UNCHANGED <<tvars, nvars, rvars, xvars, wvars, lvars, evars>>

\* one iteration of the loop of find_answer_button_near_question: build the locator of
\* the strategy and wait for it to be visible
ProbeStrategy ==
    /\ pc = "aqo_cascade"
    /\ \E outcome \in Outcomes :
          LET t == Append(trace, <<StrategyNames[strategy], Mark(outcome)>>)
          IN  IF outcome = "ok"
              THEN /\ button' = strategy
                   /\ pc' = "aqo_click"
                   /\ trace' = t
                   /\ UNCHANGED <<strategy, retry, call>>
              ELSE IF CaughtByExceptException(outcome)
              THEN IF strategy < Len(StrategyNames)
                   THEN /\ strategy' = strategy + 1
                        /\ trace' = t
                        /\ UNCHANGED <<button, pc, retry, call>>
                   ELSE \* all strategies failed: None, and `if not button: return False`
                        /\ UNCHANGED <<button, strategy>>
                        /\ AQOReturn("False", call, t)
              ELSE UNCHANGED <<button, strategy>> /\ trace' = t /\ Raise
    /\ UNCHANGED <<page, now, fuzzy_threshold, heading_pool, question_cache, last_refresh,
                   stats, heading, checked, resolved>>
    /\ UNCHANGED batch
    /\ UNCHANGED <<tvars, nvars, rvars, xvars, wvars, lvars, evars>>

\* stage 3: button.click(delay=100), then page.wait_for_load_state('networkidle')
ClickButton ==
    /\ pc = "aqo_click"
    /\ \E click \in Outcomes, idle \in Outcomes :
          LET failure == IF click # "ok" THEN click ELSE idle
              t == trace \o (IF click = "ok"
                             THEN << <<"click", "ok">>, <<"wait_for_load_state", Mark(idle)>> >>
                             ELSE << <<"click", "failed">> >>)
          IN  IF failure = "ok" THEN AQOReturn("True", call, t)
              ELSE IF CaughtByExceptException(failure) THEN AQOReturn("False", call, t)
              ELSE trace' = t /\ Raise
    /\ UNCHANGED <<page, now, fuzzy_threshold, heading_pool, question_cache, last_refresh,
                   stats, heading, strategy, button, checked, resolved>>
    /\ UNCHANGED batch
    /\ UNCHANGED <<tvars, nvars, rvars, xvars, wvars, lvars, evars>>

(***************************************************************************)
(* answer_question_with_retry                                              *)
(***************************************************************************)
AnswerQuestionWithRetry(question_text, max_retries) ==
    /\ pc = "idle"
    /\ pc' = "retry_loop"
    /\ waits' = << >>
    /\ retry' = [active |-> TRUE, attempt |-> 0, max_retries |-> max_retries,
                 q |-> question_text]
    /\ call' = Began([NoCall EXCEPT !.op = "answer_question_with_retry",
                                    !.q = question_text, !.max_retries = max_retries,
                                    !.result = "pending"])
    /\ trace' = << >>
    /\ UNCHANGED <<page, now, fuzzy_threshold, heading_pool, question_cache, last_refresh,
                   stats, heading, strategy, button, checked, resolved>>
    /\ UNCHANGED batch
    /\ UNCHANGED <<tvars, nvars, rvars, xvars, lvars, evars>>

\* a loop that runs one attempt too many
InRangeInclusive(attempt, max_retries) == attempt <= max_retries

\* `attempt in range(max_retries)`
InRange(attempt, max_retries) == attempt < max_retries

\* the head of `for attempt in range(max_retries)` and, from the second attempt on,
\* self.question_cache.clear()
RetryLoop ==
    /\ pc = "retry_loop"
    /\ IF ~InRange(retry.attempt, retry.max_retries)
       THEN /\ pc' = "done"
            /\ retry' = NoRetry
            /\ call' = [call EXCEPT !.result = "False"]
            /\ UNCHANGED <<question_cache, resolved, trace>>
       ELSE IF retry.attempt > 0
       THEN /\ question_cache' = << >>
            /\ resolved' = << >>
            /\ trace' = Append(trace, <<"clear", "ok">>)
            /\ pc' = "retry_refresh"
            /\ UNCHANGED <<retry, call>>
       ELSE /\ pc' = "retry_attempt"
            /\ UNCHANGED <<question_cache, resolved, trace, retry, call>>
    /\ UNCHANGED <<page, now, fuzzy_threshold, heading_pool, last_refresh, stats, heading,
                   strategy, button, checked>>
    /\ UNCHANGED batch
    /\ UNCHANGED <<tvars, nvars, rvars, xvars, wvars, lvars, evars>>

\* self.refresh_heading_pool(force=True)
RetryRefresh ==
    /\ pc = "retry_refresh"
    /\ heading_pool' = PoolAfterRefresh(TRUE)
    /\ last_refresh' = LastAfterRefresh(TRUE)
    /\ trace' = Append(trace, <<"refresh", "ok">>)
    /\ pc' = "retry_wait"
    /\ UNCHANGED <<page, now, fuzzy_threshold, question_cache, stats, heading, strategy,
                   button, retry, call, checked, resolved>>
    /\ UNCHANGED batch
    /\ UNCHANGED <<tvars, nvars, rvars, xvars, wvars, lvars, evars>>

\* a wait that grows with the attempt number
RetryWaitGrowing(attempt) == 1000 * attempt

\* the argument of self.page.wait_for_timeout(1000) before the attempt numbered
\* `attempt`, from 0
RetryWait(attempt) == 1000

\* self.page.wait_for_timeout(1000): not guarded by any try; the passing of the time
\* itself is the environment's Tick
WaitForTimeout ==
    /\ pc = "retry_wait"
    /\ waits' = Append(waits, RetryWait(retry.attempt))
    /\ \E outcome \in {"ok", "error"} :
          /\ trace' = Append(trace, <<"wait_for_timeout", Mark(outcome)>>)
          /\ IF outcome = "ok"
             THEN pc' = "retry_attempt" /\ UNCHANGED <<retry, call>>
             ELSE Raise
    /\ UNCHANGED <<page, now, fuzzy_threshold, heading_pool, question_cache, last_refresh,
                   stats, heading, strategy, button, checked, resolved>>
    /\ UNCHANGED batch
    /\ UNCHANGED <<tvars, nvars, rvars, xvars, lvars, evars>>

(***************************************************************************)
(* check_questions_batch                                                   *)
(***************************************************************************)
\* every list of up to n questions
RECURSIVE QuestionLists(_)
QuestionLists(n) ==
    IF n = 0 THEN {<< >>}
    ELSE QuestionLists(n - 1) \cup {Append(qs, q) : qs \in QuestionLists(n - 1), q \in Questions}

\* a loop that calls find_question(q) with its default refresh
LookupRefreshes == TRUE

\* the refresh argument of `self.find_question(q, refresh=False)`
LookupRefresh == FALSE

\* results[q] = (locator is not None)
SetResult(results, q, found) ==
    [k \in DOMAIN results \cup {q} |-> IF k = q THEN found ELSE results[k]]

\* matcher.check_questions_batch(questions) up to the head of its loop:
\* self.refresh_heading_pool(force=True) and results = {}
CheckQuestionsBatch(questions) ==
    /\ pc = "idle"
    /\ stats.total_searches + Len(questions) <= MaxSearches
    /\ heading_pool' = PoolAfterRefresh(TRUE)
    /\ last_refresh' = LastAfterRefresh(TRUE)
    /\ batch' = [active |-> TRUE, questions |-> questions, looked_up |-> 0,
                 results |-> << >>]
    /\ call' = Began([NoCall EXCEPT !.op = "check_questions_batch", !.rebuilt = TRUE,
                                    !.result = "pending"])
    /\ trace' = << <<"refresh", "ok">> >>
    /\ pc' = "batch"
    /\ UNCHANGED <<page, now, fuzzy_threshold, question_cache, stats, heading, strategy,
                   button, retry, checked, resolved>>
    /\ UNCHANGED <<tvars, nvars, rvars, xvars, wvars, lvars, evars>>

\* one turn of `for q in questions`: r is what find_question computes for q
BatchLookupReturns(q, r) ==
    /\ ApplyFind(q, r)
    /\ batch' = [batch EXCEPT !.looked_up = @ + 1,
                              !.results = SetResult(@, q, r.loc # NoneLoc)]
    /\ call' = [call EXCEPT !.rebuilt = @ \/ r.rebuilt]
    /\ trace' = Append(trace, FindEvent(r))

BatchLookup ==
    /\ pc = "batch"
    /\ batch.looked_up < Len(batch.questions)
    /\ BatchLookupReturns(batch.questions[batch.looked_up + 1],
                          FindQuestionResult(batch.questions[batch.looked_up + 1],
                                             LookupRefresh))
    /\ UNCHANGED <<page, now, fuzzy_threshold, pc, heading, strategy, button, retry>>
    /\ UNCHANGED <<tvars, nvars, rvars, xvars, wvars, lvars, evars>>

\* the loop is over: `return results`
BatchReturn ==
    /\ pc = "batch"
    /\ batch.looked_up = Len(batch.questions)
    /\ call' = [call EXCEPT !.result = "returned"]
    /\ pc' = "done"
    /\ UNCHANGED <<page, now, fuzzy_threshold, heading_pool, question_cache, last_refresh,
                   stats, heading, strategy, button, retry, checked, resolved, trace, batch>>
    /\ UNCHANGED <<tvars, nvars, rvars, xvars, wvars, lvars, evars>>

(***************************************************************************)
(* preload_page: its three calls stand in one try block whose handler,     *)
(* `except Exception`, prints a warning                                    *)
(***************************************************************************)
\* self.page.wait_for_load_state('networkidle', timeout=10000)
PreloadPage ==
    /\ pc = "idle"
    /\ \E outcome \in Outcomes :
          /\ trace' = << <<"wait_for_load_state", Mark(outcome)>> >>
          /\ call' = Began([NoCall EXCEPT !.op = "preload_page",
                                          !.result = IF outcome = "ok" THEN "pending"
                                                     ELSE "returned"])
          /\ pc' = IF outcome = "ok" THEN "preload_settle" ELSE "done"
    /\ UNCHANGED <<page, now, fuzzy_threshold, heading_pool, question_cache, last_refresh,
                   stats, heading, strategy, button, retry, checked, resolved, batch>>
    /\ UNCHANGED <<tvars, nvars, rvars, xvars, wvars, lvars, evars>>

\* self.page.wait_for_timeout(wait_timeout); the passing of the time itself is the
\* environment's Tick
PreloadSettle ==
    /\ pc = "preload_settle"
    /\ \E outcome \in {"ok", "error"} :
          /\ trace' = Append(trace, <<"wait_for_timeout", Mark(outcome)>>)
          /\ call' = [call EXCEPT !.result = IF outcome = "ok" THEN "pending"
                                             ELSE "returned"]
          /\ pc' = IF outcome = "ok" THEN "preload_refresh" ELSE "done"
    /\ UNCHANGED <<page, now, fuzzy_threshold, heading_pool, question_cache, last_refresh,
                   stats, heading, strategy, button, retry, checked, resolved, batch>>
    /\ UNCHANGED <<tvars, nvars, rvars, xvars, wvars, lvars, evars>>

\* self.refresh_heading_pool(force=True), and the method returns
PreloadRefresh ==
    /\ pc = "preload_refresh"
    /\ heading_pool' = PoolAfterRefresh(TRUE)
    /\ last_refresh' = LastAfterRefresh(TRUE)
    /\ trace' = Append(trace, <<"refresh", "ok">>)
    /\ call' = [call EXCEPT !.rebuilt = TRUE, !.result = "returned"]
    /\ pc' = "done"
    /\ UNCHANGED <<page, now, fuzzy_threshold, question_cache, stats, heading, strategy,
                   button, retry, checked, resolved, batch>>
    /\ UNCHANGED <<tvars, nvars, rvars, xvars, wvars, lvars, evars>>

\* the caller takes the result; the locals of the finished call are gone
Resume ==
    /\ pc = "done"
    /\ pc' = "idle"
    /\ heading' = NoneLoc
    /\ strategy' = 0
    /\ button' = 0
    /\ call' = NoCall
    /\ checked' = {}
    /\ trace' = << >>
    /\ batch' = NoBatch
    /\ waits' = << >>
    /\ UNCHANGED <<page, now, fuzzy_threshold, heading_pool, question_cache, last_refresh,
                   stats, retry, resolved>>
    /\ UNCHANGED <<tvars, nvars, rvars, xvars, lvars, evars>>

(***************************************************************************)
(* The environment: the page changes, time passes.  The matcher sees the   *)
(* page only through its own queries, so the changes are taken between     *)
(* calls and between the attempts of answer_question_with_retry.           *)
(***************************************************************************)
PageChange ==
    /\ pc \in {"idle", "retry_loop", "batch", "preload_settle"}
    /\ \E p \in DOMAIN Pages : p # page /\ page' = p
    /\ UNCHANGED <<now, fuzzy_threshold, heading_pool, question_cache, last_refresh, stats,
                   pc, heading, strategy, button, retry, call, checked, resolved, trace>>
    /\ UNCHANGED batch
    /\ UNCHANGED <<tvars, nvars, rvars, xvars, wvars, lvars, evars>>

Tick ==
    /\ pc \in {"idle", "retry_loop", "batch", "preload_settle"}
    /\ \E d \in {cache_ttl - 1, cache_ttl} :
          /\ now + d <= MaxNow
          /\ now' = now + d
    /\ UNCHANGED <<page, fuzzy_threshold, heading_pool, question_cache, last_refresh, stats,
                   pc, heading, strategy, button, retry, call, checked, resolved, trace>>
    /\ UNCHANGED batch
    /\ UNCHANGED <<tvars, nvars, rvars, xvars, wvars, lvars, evars>>

(***************************************************************************)
(* Code Transformer: Generator._clean_user_code followed by                *)
(* Generator._wrap_actions_for_resilience                                  *)
(* (src/src/providers/smart_no_api/generator.py).  A code text is a string *)
(* with "\n" between its lines.  Messages the source writes in Russian are *)
(* given in English, TLA+ strings being ASCII.                             *)
(***************************************************************************)
MinOf(S) == CHOOSE i \in S : \A j \in S : i <= j

\* s[i], and "" past either end
At(s, i) == IF 1 <= i /\ i <= Len(s) THEN SubSeq(s, i, i) ELSE ""

\* s[i:].startswith(lit)
LitAt(s, i, lit) ==
    1 <= i /\ i + Len(lit) - 1 <= Len(s) /\ SubSeq(s, i, i + Len(lit) - 1) = lit

\* `any(pattern in s for pattern in patterns)`
AnyIn(patterns, s) == \E p \in patterns : Contains(s, p)

\* Python s.replace(old, new) for a one-character old
RECURSIVE Replace(_, _, _)
Replace(s, old, new) ==
    IF Find(s, old) = 0 THEN s
    ELSE SubSeq(s, 1, Find(s, old) - 1) \o new
         \o Replace(SubSeq(s, Find(s, old) + 1, Len(s)), old, new)

\* user_code.replace('\t', '    ')
ExpandTabs(s) == Replace(s, "\t", "    ")

\* s.split('\n')
RECURSIVE SplitLines(_)
SplitLines(s) ==
    IF Find(s, "\n") = 0 THEN <<s>>
    ELSE <<SubSeq(s, 1, Find(s, "\n") - 1)>> \o SplitLines(SubSeq(s, Find(s, "\n") + 1, Len(s)))

\* '\n'.join(ls), the list halved at each step
RECURSIVE JoinLines(_)
JoinLines(ls) ==
    IF ls = << >> THEN ""
    ELSE IF Len(ls) = 1 THEN ls[1]
    ELSE JoinLines(SubSeq(ls, 1, Len(ls) \div 2)) \o "\n"
         \o JoinLines(SubSeq(ls, Len(ls) \div 2 + 1, Len(ls)))

\* f"{indent_str}{text}" for each text
Indented(indent_str, texts) == [k \in 1..Len(texts) |-> indent_str \o texts[k]]

(***************************************************************************)
(* The regular expressions of the Transformer, matched at a position.      *)
(***************************************************************************)
IsQuote(c) == c \in {"\"", "'"}
IsDigit(c) == c # "" /\ Contains(DigitChars, c)

\* \s* at i: how many characters it takes
RECURSIVE SpaceRun(_, _)
SpaceRun(s, i) == IF IsSpace(At(s, i)) THEN 1 + SpaceRun(s, i + 1) ELSE 0

\* \w+ at i
RECURSIVE WordRun(_, _)
WordRun(s, i) == IF At(s, i) # "" /\ IsWord(At(s, i)) THEN 1 + WordRun(s, i + 1) ELSE 0

\* \d+ at i
RECURSIVE DigitRun(_, _)
DigitRun(s, i) == IF IsDigit(At(s, i)) THEN 1 + DigitRun(s, i + 1) ELSE 0

\* [^"']+ at i
RECURSIVE NonQuoteRun(_, _)
NonQuoteRun(s, i) ==
    IF At(s, i) = "" \/ IsQuote(At(s, i)) THEN 0 ELSE 1 + NonQuoteRun(s, i + 1)

\* [^)]+ at i
RECURSIVE NonParenRun(_, _)
NonParenRun(s, i) ==
    IF At(s, i) = "" \/ At(s, i) = ")" THEN 0 ELSE 1 + NonParenRun(s, i + 1)

\* ["']([^"']+)["'] with the opening quote at i, and its group
QuotedAt(s, i) ==
    /\ IsQuote(At(s, i))
    /\ NonQuoteRun(s, i + 1) >= 1
    /\ IsQuote(At(s, i + 1 + NonQuoteRun(s, i + 1)))
QuotedText(s, i) == SubSeq(s, i + 1, i + NonQuoteRun(s, i + 1))

\* prefix["']([^"']+)["'] : the places where it matches, and the group of the first
QuotedAfterHits(s, prefix) ==
    {i \in 1..Len(s) : LitAt(s, i, prefix) /\ QuotedAt(s, i + Len(prefix))}
QuotedAfter(s, prefix) == QuotedText(s, MinOf(QuotedAfterHits(s, prefix)) + Len(prefix))

\* get_by_role\(["'](\w+)["']\s*,\s*name=["']([^"']+)["'] tried at i: the places of
\* the quote closing the role, of the comma and of name=
RoleEnd(s, i) == i + 13 + WordRun(s, i + 13)
RoleComma(s, i) == RoleEnd(s, i) + 1 + SpaceRun(s, RoleEnd(s, i) + 1)
RoleNameEq(s, i) == RoleComma(s, i) + 1 + SpaceRun(s, RoleComma(s, i) + 1)
RoleNameAt(s, i) ==
    /\ LitAt(s, i, "get_by_role(")
    /\ IsQuote(At(s, i + 12))
    /\ WordRun(s, i + 13) >= 1
    /\ IsQuote(At(s, RoleEnd(s, i)))
    /\ At(s, RoleComma(s, i)) = ","
    /\ LitAt(s, RoleNameEq(s, i), "name=")
    /\ QuotedAt(s, RoleNameEq(s, i) + 5)
RoleOf(s, i) == SubSeq(s, i + 13, RoleEnd(s, i) - 1)
NameOf(s, i) == QuotedText(s, RoleNameEq(s, i) + 5)
RoleHits(s) == {i \in 1..Len(s) : RoleNameAt(s, i)}

\* get_by_role\(["']heading["']\s*,\s*name=["']([^"']+)["']
HeadingHits(s) == {i \in RoleHits(s) : RoleOf(s, i) = "heading"}

\* (page\d+)\.
PageVarHits(s) ==
    {i \in 1..Len(s) :
        /\ LitAt(s, i, "page")
        /\ DigitRun(s, i + 4) >= 1
        /\ At(s, i + 4 + DigitRun(s, i + 4)) = "."}

\* \.get_by_\w+\([^)]+\)  or  \.locator\([^)]+\)
CallAt(s, open) == At(s, open) = "(" /\ NonParenRun(s, open + 1) >= 1
                   /\ At(s, open + 1 + NonParenRun(s, open + 1)) = ")"
HasSelector(s) ==
    \/ \E i \in 1..Len(s) :
          /\ LitAt(s, i, ".get_by_")
          /\ WordRun(s, i + 8) >= 1
          /\ CallAt(s, i + 8 + WordRun(s, i + 8))
    \/ \E i \in 1..Len(s) : LitAt(s, i, ".locator") /\ CallAt(s, i + 8)

\* (\w+)\s*=\s*page\d+_info\.value tried at i: the places of = and of page
AssignEq(s, i) == i + WordRun(s, i) + SpaceRun(s, i + WordRun(s, i))
AssignPage(s, i) == AssignEq(s, i) + 1 + SpaceRun(s, AssignEq(s, i) + 1)
AssignAt(s, i) ==
    /\ WordRun(s, i) >= 1
    /\ At(s, AssignEq(s, i)) = "="
    /\ LitAt(s, AssignPage(s, i), "page")
    /\ DigitRun(s, AssignPage(s, i) + 4) >= 1
    /\ LitAt(s, AssignPage(s, i) + 4 + DigitRun(s, AssignPage(s, i) + 4), "_info.value")
AssignHits(s) == {i \in 1..Len(s) : AssignAt(s, i)}

(***************************************************************************)
(* _extract_action_description                                             *)
(***************************************************************************)
ClickFillOrAction(line) ==
    IF Contains(line, ".click(") THEN "click"
    ELSE IF Contains(line, ".fill(") THEN "fill" ELSE "action"

ClickOrAction(line) == IF Contains(line, ".click(") THEN "click" ELSE "action"

RoleDescription(line, i) ==
    ClickFillOrAction(line) \o " " \o RoleOf(line, i) \o " '" \o NameOf(line, i) \o "'"

ExtractActionDescription(line) ==
    IF RoleHits(line) # {} THEN RoleDescription(line, MinOf(RoleHits(line)))
    ELSE IF QuotedAfterHits(line, "get_by_text(") # {}
    THEN ClickOrAction(line) \o " text '" \o QuotedAfter(line, "get_by_text(") \o "'"
    ELSE IF QuotedAfterHits(line, "get_by_placeholder(") # {}
    THEN "fill placeholder '" \o QuotedAfter(line, "get_by_placeholder(") \o "'"
    ELSE IF QuotedAfterHits(line, "locator(") # {}
    THEN ClickFillOrAction(line) \o " '" \o QuotedAfter(line, "locator(") \o "'"
    ELSE IF Contains(line, ".click(") THEN "click element"
    ELSE IF Contains(line, ".fill(") THEN "fill field"
    ELSE IF Contains(line, ".select_option(") THEN "select option"
    ELSE IF Contains(line, ".check(") THEN "check checkbox"
    ELSE "action"

(***************************************************************************)
(* The tests _wrap_actions_for_resilience makes on a stripped line.        *)
(***************************************************************************)
\* .replace("'", "'").replace("'", "'"): both calls map the ASCII apostrophe to itself
SanitizeQuotes(s) == Replace(Replace(s, "'", "'"), "'", "'")

\* action_desc with the two replaces above and .replace('"', '\\"')
ActionDesc(stripped) ==
    Replace(SanitizeQuotes(ExtractActionDescription(stripped)), "\"", "\\\"")

WithPatterns ==
    {"with page.expect_popup(", "with page.expect_navigation(",
     "with page1.expect_popup(", "with page1.expect_navigation(",
     "with page2.expect_popup(", "with page2.expect_navigation(",
     "with page3.expect_popup(", "with page3.expect_navigation("}

OpensWithBlock(stripped) == AnyIn(WithPatterns, stripped)

\* the pattern list of is_critical without the popup handles
CriticalPatternPrimaryOnly(stripped) ==
    AnyIn({"page.goto(", "with page.expect_popup(", "with page.expect_navigation(",
           "check_heading(", "= page", "wait_for_navigation("}, stripped)

\* the pattern list of is_critical
CriticalPattern(stripped) ==
    AnyIn({"page.goto(", "with page.expect_popup(", "with page.expect_navigation(",
           "check_heading(", "= page", "wait_for_navigation(",
           "page1.", "page2.", "page3."}, stripped)

IsAction(stripped) ==
    AnyIn({".click(", ".fill(", ".select_option(", ".check(", ".uncheck(",
           ".set_checked(", ".press(", ".type("}, stripped)

IsPopupAction(stripped) ==
    IsAction(stripped) /\ AnyIn({"page1.", "page2.", "page3."}, stripped)

\* page_var of the retry loop
PopupPageVar(stripped) ==
    IF PageVarHits(stripped) = {} THEN "page1"
    ELSE SubSeq(stripped, MinOf(PageVarHits(stripped)),
                MinOf(PageVarHits(stripped)) + 3 + DigitRun(stripped, MinOf(PageVarHits(stripped)) + 4))

\* the keyword test made on the description when the retry loop is generated
OptionalKeywords ==
    {"show more", "see more", "load more", "view more", "expand", "pokazat bolshe"}
IsOptionalButton(action_desc) == AnyIn(OptionalKeywords, Lower(action_desc))

\* `'= page1_info.value' in sanitized_line or ...`
IsPopupAssignment(sanitized_line) ==
    AnyIn({"= page1_info.value", "= page2_info.value", "= page3_info.value"}, sanitized_line)

\* the handle the assignment regex finds
AssignedPageVar(sanitized_line) ==
    SubSeq(sanitized_line, MinOf(AssignHits(sanitized_line)),
           MinOf(AssignHits(sanitized_line)) + WordRun(sanitized_line, MinOf(AssignHits(sanitized_line))) - 1)

(***************************************************************************)
(* The tests _clean_user_code makes on a stripped line.                    *)
(***************************************************************************)
\* blank lines, comments, imports
IsSkippedLine(stripped) ==
    \/ stripped = ""
    \/ StartsWith(stripped, "#")
    \/ StartsWith(stripped, "import ")
    \/ StartsWith(stripped, "from ")

IsRunDef(stripped) == Contains(stripped, "def run(") /\ Contains(stripped, "playwright")

\* browser/context/page setup and close, the sync_playwright wrapper and its call
IsBoilerplate(stripped) ==
    \/ AnyIn({"browser = playwright.chromium.launch", "context = browser.new_context",
              "page = context.new_page", "browser.launch(", "new_context(", "new_page("},
             stripped)
    \/ AnyIn({"context.close()", "browser.close()", ".close()"}, stripped)
       /\ ~Contains(stripped, "page")
    \/ Contains(stripped, "with sync_playwright()")
    \/ stripped = "run(playwright)"
    \/ StartsWith(stripped, "# -----")

MentionsHeading(stripped) ==
    Contains(stripped, "get_by_role(\"heading\"") \/ Contains(stripped, "get_by_role('heading'")

\* heading_text, for a line the heading regex matches
HeadingText(stripped) == NameOf(stripped, MinOf(HeadingHits(stripped)))

\* a check_heading call that leaves the timeout to its default
HeadingCallDefaultTimeout(current_indent, heading_text) ==
    Spaces(current_indent) \o "check_heading(page, [\"" \o heading_text \o "\"])"

\* the check_heading call a heading click is turned into
HeadingCall(current_indent, heading_text) ==
    Spaces(current_indent) \o "check_heading(page, [\"" \o heading_text \o "\"], timeout=5000)"

(***************************************************************************)
(* _handle_special_command: the lines it appends, << >> when it returns    *)
(* False.                                                                  *)
(***************************************************************************)
\* re.match(r'#pause(\d+)', comment_lower) and its group
PauseMatches(comment_lower) == LitAt(comment_lower, 1, "#pause") /\ DigitRun(comment_lower, 7) >= 1
PauseSeconds(comment_lower) == SubSeq(comment_lower, 7, 6 + DigitRun(comment_lower, 7))

PauseLines(seconds) ==
    <<"# User command: pause " \o seconds \o " seconds",
      "print(f'[PAUSE] Waiting " \o seconds \o " seconds...')",
      "time.sleep(" \o seconds \o ")",
      "print(f'[PAUSE] Resume')">>

ToggleLines(page_context) ==
    <<"# User command: toggle switches",
      "print(f'[SWITCHES] Toggling switches on " \o page_context \o "...')",
      "try:",
      "    # Find all switches on the page",
      "    switches = " \o page_context \o ".get_by_role('switch').all()",
      "    print(f\"[SWITCHES] Found {len(switches)} switches\")",
      "    ",
      "    # Find first checked switch and uncheck it",
      "    for i, switch in enumerate(switches):",
      "        if switch.is_checked():",
      "            print(f\"[SWITCHES] Unchecking switch {i+1} (was checked)\")",
      "            switch.uncheck()",
      "            time.sleep(0.3)",
      "            break",
      "    ",
      "    # Find first unchecked switch and check it",
      "    for i, switch in enumerate(switches):",
      "        if not switch.is_checked():",
      "            print(f\"[SWITCHES] Checking switch {i+1} (was unchecked)\")",
      "            switch.check()",
      "            time.sleep(0.3)",
      "            break",
      "    ",
      "    print(f\"[SWITCHES] Switches toggled successfully\")",
      "except Exception as e:",
      "    print(f\"[SWITCHES] [ERROR] Failed to toggle switches: {e}\")">>

ScrollLines(what, page_context, target) ==
    <<"# User command: scroll " \o what,
      "print(f'[SCROLL] Scrolling " \o what \o " on " \o page_context \o "...')",
      page_context \o ".evaluate('window.scrollTo(" \o target \o ")')",
      "time.sleep(0.5)">>

SpecialCommandLines(comment_lower, page_context) ==
    IF PauseMatches(comment_lower) THEN PauseLines(PauseSeconds(comment_lower))
    ELSE IF comment_lower = "#toggle_switches" THEN ToggleLines(page_context)
    ELSE IF comment_lower = "#optional" THEN << >>
    ELSE IF comment_lower \in {"#scrolldown", "#scroll"}
    THEN ScrollLines("down", page_context, "0, document.body.scrollHeight")
    ELSE IF comment_lower = "#scrollup" THEN ScrollLines("up", page_context, "0, 0")
    ELSE IF comment_lower = "#scrollmid"
    THEN ScrollLines("to middle", page_context, "0, document.body.scrollHeight / 2")
    ELSE << >>

HandleSpecialCommand(comment, indent_str, page_context) ==
    Indented(indent_str, SpecialCommandLines(Strip(Lower(comment)), page_context))

(***************************************************************************)
(* The blocks _wrap_actions_for_resilience emits.                          *)
(***************************************************************************)
OptionalMarkerLine(line) ==
    Spaces(LeadingSpaces(line))
    \o "# Next action is optional (will not fail script if element not found)"

\* the catch-and-continue wrapper, before indentation
ResilientLines(sanitized_code, action_desc) ==
    <<"try:",
      "    " \o sanitized_code,
      "except PlaywrightTimeout:",
      "    print(f\"[ACTION] [WARNING] Timeout: " \o action_desc \o "\")",
      "    print(f\"[ACTION] [INFO] Element not found - possibly another flow variant, continuing...\")",
      "    pass  # Continue execution">>

\* the head of the loop with the scroll to the bottom made before the wait
RetryHeadScrollsFirst(page_var, action_desc) ==
    <<"# Retry logic for popup page action with progressive delays and smart scrolling",
      "max_retries = 5",
      "progressive_delays = [5, 10, 15, 20, 30]  # Progressive delays in seconds",
      "for retry_attempt in range(max_retries):",
      "    try:",
      "        if retry_attempt > 0:",
      "            delay = progressive_delays[retry_attempt - 1]",
      "            print(f\"[POPUP_RETRY] Attempt {retry_attempt+1}/{max_retries} (waiting {delay}s): "
          \o action_desc \o "\")",
      "            time.sleep(delay)",
      "            # Wait for page to stabilize",
      "            " \o page_var \o ".evaluate('window.scrollTo(0, document.body.scrollHeight)')",
      "            # Scroll to bottom first to trigger lazy loading",
      "            " \o page_var \o ".wait_for_load_state('domcontentloaded', timeout=5000)",
      "            time.sleep(0.5)",
      "            # Scroll back to middle for element visibility",
      "            " \o page_var \o ".evaluate('window.scrollTo(0, document.body.scrollHeight / 2)')",
      "            time.sleep(0.3)">>

RetryHead(page_var, action_desc) ==
    <<"# Retry logic for popup page action with progressive delays and smart scrolling",
      "max_retries = 5",
      "progressive_delays = [5, 10, 15, 20, 30]  # Progressive delays in seconds",
      "for retry_attempt in range(max_retries):",
      "    try:",
      "        if retry_attempt > 0:",
      "            delay = progressive_delays[retry_attempt - 1]",
      "            print(f\"[POPUP_RETRY] Attempt {retry_attempt+1}/{max_retries} (waiting {delay}s): "
          \o action_desc \o "\")",
      "            time.sleep(delay)",
      "            # Wait for page to stabilize",
      "            " \o page_var \o ".wait_for_load_state('domcontentloaded', timeout=5000)",
      "            # Scroll to bottom first to trigger lazy loading",
      "            " \o page_var \o ".evaluate('window.scrollTo(0, document.body.scrollHeight)')",
      "            time.sleep(0.5)",
      "            # Scroll back to middle for element visibility",
      "            " \o page_var \o ".evaluate('window.scrollTo(0, document.body.scrollHeight / 2)')",
      "            time.sleep(0.3)">>

\* the attempt itself: the element scrolled into view and clicked, or the line as recorded
RetryAttempt(stripped, sanitized_code, has_selector) ==
    IF has_selector /\ Contains(stripped, ".click()")
    THEN <<"        # Scroll element into view if needed",
           "        try:",
           "            element = " \o Strip(SubSeq(stripped, 1, Find(stripped, ".click()") - 1)),
           "            element.scroll_into_view_if_needed(timeout=3000)",
           "            time.sleep(0.2)  # Wait for scroll animation",
           "            print(f\"[POPUP_ACTION] Element scrolled into view\")",
           "        except:",
           "            print(f\"[POPUP_ACTION] [WARNING] Could not scroll element into view, attempting anyway...\")",
           "            pass",
           "        element.click()">>
    ELSE <<"        " \o sanitized_code>>

\* the last-attempt handler as it would be if every popup action were judged critical
RetryExhaustedRaises(page_var, action_desc) ==
    <<"            raise  # Re-raise on final attempt for critical buttons">>

RetryExhausted(page_var, action_desc) ==
    IF IsOptionalButton(action_desc)
    THEN <<"            # Smart detection: This appears to be an optional expandable button",
           "            print(f\"[POPUP_ACTION] [INFO] Button may not exist if content already loaded\")",
           "            print(f\"[POPUP_ACTION] [INFO] Checking page state...\")",
           "            try:",
           "                " \o page_var \o ".wait_for_load_state('domcontentloaded', timeout=3000)",
           "                print(f\"[POPUP_ACTION] [OK] Page stable - content likely already loaded, continuing...\")",
           "            except:",
           "                print(f\"[POPUP_ACTION] [WARNING] Page check failed but treating as optional\")",
           "            break  # Continue execution without raising error">>
    ELSE <<"            raise  # Re-raise on final attempt for critical buttons">>

RetryTail(page_var, action_desc) ==
    <<"        print(f\"[POPUP_ACTION] [OK] " \o action_desc \o "\")",
      "        break  # Success - exit retry loop",
      "    except PlaywrightTimeout:",
      "        if retry_attempt == max_retries - 1:",
      "            print(f\"[POPUP_ACTION] [ERROR] Failed after {max_retries} attempts (total {sum(progressive_delays)}s): "
          \o action_desc \o "\")">>
    \o RetryExhausted(page_var, action_desc)
    \o <<"        else:",
         "            print(f\"[POPUP_RETRY] Timeout on attempt {retry_attempt+1}, retrying with longer delay...\")",
         "            continue">>

\* the 5-attempt progressive-delay retry loop, before indentation
RetryLines(stripped, sanitized_code, action_desc, page_var, has_selector) ==
    RetryHead(page_var, action_desc)
    \o RetryAttempt(stripped, sanitized_code, has_selector)
    \o RetryTail(page_var, action_desc)

\* the lines that follow a popup page assignment
StabiliseLines(page_var) ==
    <<"# Wait for popup page to load and stabilize",
      "time.sleep(1.5)  # Extended wait for popup to fully load",
      page_var \o ".wait_for_load_state('domcontentloaded')",
      "try:",
      "    " \o page_var \o ".wait_for_load_state('networkidle', timeout=10000)",
      "    print(f\"[POPUP] Network stabilized on " \o page_var \o "\")",
      "except:",
      "    print(f\"[POPUP] Network idle timeout - continuing anyway\")",
      "    pass",
      "# Scroll down to load bottom elements (like 'See more')",
      page_var \o ".evaluate('window.scrollTo(0, document.body.scrollHeight)')",
      "time.sleep(0.5)",
      "# Scroll to middle position (50%) for element visibility",
      page_var \o ".evaluate('window.scrollTo(0, document.body.scrollHeight / 2)')",
      "time.sleep(0.3)",
      "print(f\"[POPUP] [OK] " \o page_var \o " page loaded and scrolled to middle position\")",
      "print(f\"[POPUP] Elements at 50-75% position should now be visible\")">>

(***************************************************************************)
(* Recorded input.  LineVocab holds the lines a recording is drawn from.   *)
(***************************************************************************)
MaxLines == 3

LineVocab ==
    {"def run(playwright):",
     "    page.get_by_text('Go').click()",
     "page.get_by_text('Go').click()",
     "\tpage.get_by_text('Go').click()",
     "page1 = page1_info.value",
     "page1.get_by_text('See more').click()",
     "page1.fill('#q', 'x')",
     "page4.get_by_text('Go').click()",
     "#optional",
     "#pause5",
     "#scrolldown",
     "#toggle_switches",
     "with page.expect_popup() as page1_info:",
     "page.goto('https://example.com')",
     "page.get_by_role(\"heading\", name=\"Step 2\").click()",
     "page.get_by_role(\"heading\").click()",
     "import re",
     ""}

Recordings == UNION {[1..n -> LineVocab] : n \in 1..MaxLines}

UserCodes == {JoinLines(ls) : ls \in Recordings}

\* Recordings with typographic quotes.  TLA+ strings being ASCII, the right single
\* quotation mark U+2019 is written as the tilde and the right double
\* quotation mark U+201D as the at sign; neither character occurs in the source
\* or in its output otherwise.
CurlyQuotes == {"~", "@"}

MaxQuoteLines == 2

QuoteVocab ==
    {"def run(playwright):",
     "    page.get_by_text('Let~s go').click()",
     "page.get_by_text('Let~s go').click()",
     "page1.get_by_text('Let~s go').click()",
     "page.goto('https://example.com/@a@')",
     "with page.expect_popup() as page1_info:"}

QuoteCodes == {JoinLines(ls) : ls \in UNION {[1..n -> QuoteVocab] : n \in 1..MaxQuoteLines}}

\* Recordings of a run() function whose body is indented by four spaces and may
\* begin with a click on a heading
MaxHeadingLines == 3

HeadingVocab ==
    {"def run(playwright):",
     "    page.get_by_role(\"heading\", name=\"Step 2\").click()",
     "    page.goto('https://example.com')",
     "        page.goto('https://example.com')",
     "    page.get_by_text('Go').click()"}

HeadingCodes ==
    {JoinLines(ls) : ls \in UNION {[1..n -> HeadingVocab] : n \in 1..MaxHeadingLines}}

\* the stripped texts a line of these recordings can have in either loop
StrippedTexts ==
    {Strip(l) : l \in LineVocab \cup QuoteVocab}
    \cup {HeadingCall(0, HeadingText(Strip(l))) :
             l \in {v \in LineVocab : HeadingHits(Strip(v)) # {}}}

\* what the two loops test on a stripped text, computed once per text
Facts ==
    [s \in StrippedTexts |->
        [skipped |-> IsSkippedLine(s),
         run_def |-> IsRunDef(s),
         boilerplate |-> IsBoilerplate(s),
         mentions_heading |-> MentionsHeading(s),
         heading_matches |-> HeadingHits(s) # {},
         opens_with |-> OpensWithBlock(s),
         critical |-> CriticalPattern(s),
         is_action |-> IsAction(s),
         is_popup_action |-> IsPopupAction(s),
         resilient_lines |-> ResilientLines(SanitizeQuotes(s), ActionDesc(s)),
         retry_lines |-> RetryLines(s, SanitizeQuotes(s), ActionDesc(s), PopupPageVar(s),
                                    HasSelector(s)),
         is_optional_marker |-> Lower(s) = "#optional"]]

\* the lines the wrap loop can meet, and what the else branch computes from one
Indents == {0, 4, 8}
LineTexts ==
    LineVocab \cup QuoteVocab \cup {Spaces(n) \o s : n \in Indents, s \in StrippedTexts}
Sanitized == [l \in LineTexts |-> SanitizeQuotes(l)]
Assignment ==
    [l \in {Sanitized[t] : t \in LineTexts} |->
        IF IsPopupAssignment(l) /\ AssignHits(l) # {}
        THEN [found |-> TRUE, page_var |-> AssignedPageVar(l)]
        ELSE [found |-> FALSE, page_var |-> ""]]

Headings == [s \in {t \in StrippedTexts : HeadingHits(t) # {}} |-> HeadingText(s)]

(***************************************************************************)
(* One iteration of the while loop of _wrap_actions_for_resilience.  w is  *)
(* the record of the loop's locals; marks notes, for each input line, the  *)
(* branch that emitted it and where its output starts.                     *)
(***************************************************************************)
WrapStart ==
    [wrapped_lines |-> << >>, inside_with_block |-> FALSE, with_block_indent |-> 0,
     next_action_optional |-> FALSE, current_page_context |-> "page", marks |-> << >>]

MarkLine(w, kind) == Append(w.marks, [kind |-> kind, at |-> Len(w.wrapped_lines) + 1])

\* `next_action_optional = False  # Reset marker`
MarkerReset(marker) == FALSE

\* the `#optional` branch
WrapOptionalMarker(w, line) ==
    [w EXCEPT !.next_action_optional = TRUE,
              !.wrapped_lines = Append(@, OptionalMarkerLine(line)),
              !.marks = MarkLine(w, "marker")]

\* the blank line and comment branch
WrapComment(w, line) ==
    [w EXCEPT !.wrapped_lines = Append(@, line), !.marks = MarkLine(w, "comment")]

\* the else branch: the line kept as it is, a special command expanded, a popup
\* assignment followed by the stabilisation lines
WrapKeep(w, sanitized_line, stripped, indent_str, inside, wbi) ==
    IF StartsWith(stripped, "#")
       /\ HandleSpecialCommand(stripped, indent_str, w.current_page_context) # << >>
    THEN [w EXCEPT !.wrapped_lines =
                       @ \o HandleSpecialCommand(stripped, indent_str, w.current_page_context),
                   !.inside_with_block = inside, !.with_block_indent = wbi,
                   !.next_action_optional = MarkerReset(@),
                   !.marks = MarkLine(w, "command")]
    ELSE IF Assignment[sanitized_line].found
    THEN [w EXCEPT !.wrapped_lines =
                       Append(@, sanitized_line)
                       \o Indented(indent_str, StabiliseLines(Assignment[sanitized_line].page_var)),
                   !.current_page_context = Assignment[sanitized_line].page_var,
                   !.inside_with_block = inside, !.with_block_indent = wbi,
                   !.next_action_optional = MarkerReset(@),
                   !.marks = MarkLine(w, "bare")]
    ELSE [w EXCEPT !.wrapped_lines = Append(@, sanitized_line),
                   !.inside_with_block = inside, !.with_block_indent = wbi,
                   !.next_action_optional = MarkerReset(@),
                   !.marks = MarkLine(w, "bare")]

\* the three-way branch on is_action, is_popup_action and is_critical
WrapEmit(w, line, stripped, indent, inside, wbi, is_critical) ==
    IF Facts[stripped].is_action /\ ~is_critical
    THEN [w EXCEPT !.wrapped_lines =
                       @ \o Indented(Spaces(indent), Facts[stripped].resilient_lines),
                   !.inside_with_block = inside, !.with_block_indent = wbi,
                   !.next_action_optional = MarkerReset(@),
                   !.marks = MarkLine(w, "resilient")]
    ELSE IF Facts[stripped].is_popup_action /\ is_critical
    THEN [w EXCEPT !.wrapped_lines =
                       @ \o Indented(Spaces(indent), Facts[stripped].retry_lines),
                   !.inside_with_block = inside, !.with_block_indent = wbi,
                   !.next_action_optional = MarkerReset(@),
                   !.marks = MarkLine(w, "retry")]
    ELSE WrapKeep(w, Sanitized[line], stripped, Spaces(indent), inside, wbi)

\* the classification by the list of critical patterns alone, the with-block
\* left out of it
IsCriticalByPattern(stripped, indent, inside, wbi, marker) ==
    IF marker THEN FALSE ELSE Facts[stripped].critical

\* is_critical after the pattern test, the with-block test and the marker test
IsCritical(stripped, indent, inside, wbi, marker) ==
    IF marker THEN FALSE
    ELSE Facts[stripped].critical \/ (inside /\ indent > wbi /\ ~marker)

WrapClassify(w, line, stripped, indent, inside, wbi) ==
    WrapEmit(w, line, stripped, indent, inside, wbi,
             IsCritical(stripped, indent, inside, wbi, w.next_action_optional))

\* the indentation test with the lower line read as the end of the block: the line
\* is kept where it is and the block is left
WrapIndentExits(w, line, stripped, indent, inside, wbi) ==
    IF inside /\ indent <= wbi /\ ~StartsWith(stripped, "with")
    THEN WrapClassify(w, line, stripped, indent, FALSE, wbi)
    ELSE WrapClassify(w, line, stripped, indent, inside, wbi)

\* the indentation fix inside a with block, and the elif that would leave the block
WrapIndent(w, line, stripped, indent, inside, wbi) ==
    IF inside /\ indent <= wbi /\ stripped # "" /\ ~StartsWith(stripped, "with")
    THEN WrapClassify(w, Spaces(wbi + 4) \o stripped, Strip(Spaces(wbi + 4) \o stripped),
                      wbi + 4, inside, wbi)
    ELSE IF inside /\ indent <= wbi /\ ~StartsWith(stripped, "with")
    THEN WrapClassify(w, line, stripped, indent, FALSE, wbi)
    ELSE WrapClassify(w, line, stripped, indent, inside, wbi)

\* the with-block tracking
WrapCode(w, line, stripped, indent) ==
    IF Facts[stripped].opens_with
    THEN WrapIndent(w, line, stripped, indent, TRUE, indent)
    ELSE WrapIndent(w, line, stripped, indent, w.inside_with_block, w.with_block_indent)

WrapStripped(w, line, stripped) ==
    IF Facts[stripped].is_optional_marker THEN WrapOptionalMarker(w, line)
    ELSE IF stripped = "" \/ StartsWith(stripped, "#") THEN WrapComment(w, line)
    ELSE WrapCode(w, line, stripped, LeadingSpaces(line))

WrapIteration(w, line) == WrapStripped(w, line, Strip(line))

\* the whole loop from line k on
RECURSIVE WrapFrom(_, _, _)
WrapFrom(w, ls, k) ==
    IF k > Len(ls) THEN w
    ELSE CHOOSE r \in {WrapFrom(v, ls, k + 1) : v \in {WrapIteration(w, ls[k])}} : TRUE

(***************************************************************************)
(* One iteration of the for loop of _clean_user_code.  c is the record of  *)
(* the loop's locals; origin notes the input line each cleaned line came   *)
(* from.                                                                   *)
(***************************************************************************)
NoIndent == -1

CleanStart ==
    [cleaned_lines |-> << >>, in_run_function |-> FALSE, base_indent |-> NoIndent,
     origin |-> << >>]

Max(a, b) == IF a >= b THEN a ELSE b

\* current_indent of a heading line
HeadingIndent(c, line) ==
    IF c.in_run_function /\ c.base_indent # NoIndent
    THEN Max(0, LeadingSpaces(line) - c.base_indent)
    ELSE LeadingSpaces(line)

\* a heading branch that keeps the line it cannot parse
CleanHeadingKeepsUnparsed(c, line, stripped, k) ==
    IF Facts[stripped].heading_matches
    THEN [c EXCEPT !.cleaned_lines =
                       Append(@, HeadingCall(HeadingIndent(c, line), Headings[stripped])),
                   !.origin = Append(@, k)]
    ELSE [c EXCEPT !.cleaned_lines = Append(@, line), !.origin = Append(@, k)]

\* the heading branch: the line is rewritten when the name can be extracted and
\* skipped when it cannot
CleanHeading(c, line, stripped, k) ==
    IF Facts[stripped].heading_matches
    THEN [c EXCEPT !.cleaned_lines =
                       Append(@, HeadingCall(HeadingIndent(c, line), Headings[stripped])),
                   !.origin = Append(@, k)]
    ELSE c

\* base_indent after the detection from the first real action
BaseIndent(c, line, stripped) ==
    IF c.base_indent = NoIndent /\ ~StartsWith(stripped, "def ")
    THEN LeadingSpaces(line) ELSE c.base_indent

\* the line with the base indentation removed
Dedent(line, base) ==
    IF StartsWith(line, Spaces(base))
    THEN SubSeq(line, base + 1, Len(line)) ELSE LStrip(line)

CleanInRun(c, line, k, base) ==
    IF base # NoIndent
    THEN [c EXCEPT !.base_indent = base,
                   !.cleaned_lines = Append(@, Dedent(line, base)),
                   !.origin = Append(@, k)]
    ELSE c

CleanStripped(c, line, stripped, k) ==
    IF Facts[stripped].skipped THEN c
    ELSE IF Facts[stripped].run_def THEN [c EXCEPT !.in_run_function = TRUE]
    ELSE IF Facts[stripped].boilerplate THEN c
    ELSE IF Facts[stripped].mentions_heading THEN CleanHeading(c, line, stripped, k)
    ELSE IF c.in_run_function /\ stripped # ""
    THEN CleanInRun(c, line, k, BaseIndent(c, line, stripped))
    ELSE c

CleanIteration(c, line, k) == CleanStripped(c, line, Strip(line), k)

\* `if not cleaned_code.strip()`
IsBlankCode(code) == Strip(code) = ""

(***************************************************************************)
(* The Transformer as a state machine: one step per loop iteration.        *)
(***************************************************************************)
CleanLocals ==
    [cleaned_lines |-> cleaned_lines, in_run_function |-> in_run_function,
     base_indent |-> base_indent, origin |-> origin]

SetCleanLocals(c) ==
    /\ cleaned_lines' = c.cleaned_lines
    /\ in_run_function' = c.in_run_function
    /\ base_indent' = c.base_indent
    /\ origin' = c.origin

WrapLocals ==
    [wrapped_lines |-> wrapped_lines, inside_with_block |-> inside_with_block,
     with_block_indent |-> with_block_indent, next_action_optional |-> next_action_optional,
     current_page_context |-> current_page_context, marks |-> marks]

SetWrapLocals(w) ==
    /\ wrapped_lines' = w.wrapped_lines
    /\ inside_with_block' = w.inside_with_block
    /\ with_block_indent' = w.with_block_indent
    /\ next_action_optional' = w.next_action_optional
    /\ current_page_context' = w.current_page_context
    /\ marks' = w.marks

\* no Transformer call is running
TransformerOff ==
    /\ user_code = ""
    /\ called = "none"
    /\ tpc = "off"
    /\ lines = << >>
    /\ pos = 0
    /\ cleaned_lines = << >>
    /\ in_run_function = FALSE
    /\ base_indent = NoIndent
    /\ origin = << >>
    /\ wrapped_lines = << >>
    /\ inside_with_block = FALSE
    /\ with_block_indent = 0
    /\ next_action_optional = FALSE
    /\ current_page_context = "page"
    /\ marks = << >>
    /\ wrapped = FALSE
    /\ result = ""

\* the entry method is called once
SingleCall ==
    /\ pending = << >>
    /\ outputs = << >>

\* the lines the called method starts its loop on
EntryLines(method, code) ==
    IF method = "clean" THEN SplitLines(ExpandTabs(code)) ELSE SplitLines(code)

\* _clean_user_code(user_code), or _wrap_actions_for_resilience(user_code), has been
\* called and is about to enter its loop
TransformerCalled(codes) ==
    /\ user_code \in codes
    /\ called \in {"clean", "wrap"}
    /\ tpc = called
    /\ lines = EntryLines(called, user_code)
    /\ pos = 1
    /\ cleaned_lines = << >>
    /\ in_run_function = FALSE
    /\ base_indent = NoIndent
    /\ origin = << >>
    /\ wrapped_lines = << >>
    /\ inside_with_block = FALSE
    /\ with_block_indent = 0
    /\ next_action_optional = FALSE
    /\ current_page_context = "page"
    /\ marks = << >>
    /\ wrapped = FALSE
    /\ result = ""

TransformerInit == TransformerCalled(UserCodes)

\* one iteration of `for line in lines` of _clean_user_code
CleanLine ==
    /\ tpc = "clean"
    /\ pos <= Len(lines)
    /\ SetCleanLocals(CleanIteration(CleanLocals, lines[pos], pos))
    /\ pos' = pos + 1
    /\ UNCHANGED <<user_code, called, tpc, lines, wrapped_lines, inside_with_block,
                   with_block_indent, next_action_optional, current_page_context, marks,
                   wrapped, result>>
    /\ UNCHANGED <<mvars, nvars, rvars, xvars, wvars, lvars, evars>>

\* `if not cleaned_code.strip(): return user_code`
CleanReturnsUserCode ==
    /\ tpc = "clean"
    /\ pos > Len(lines)
    /\ IsBlankCode(JoinLines(cleaned_lines))
    /\ result' = ExpandTabs(user_code)
    /\ wrapped' = FALSE
    /\ tpc' = "done"
    /\ UNCHANGED <<user_code, called, lines, pos, cleaned_lines, in_run_function, base_indent,
                   origin, wrapped_lines, inside_with_block, with_block_indent,
                   next_action_optional, current_page_context, marks>>
    /\ UNCHANGED <<mvars, nvars, rvars, xvars, wvars, lvars, evars>>

\* `return self._wrap_actions_for_resilience(cleaned_code)`: the call and its split
CleanCallsWrap ==
    /\ tpc = "clean"
    /\ pos > Len(lines)
    /\ ~IsBlankCode(JoinLines(cleaned_lines))
    /\ lines' = SplitLines(JoinLines(cleaned_lines))
    /\ pos' = 1
    /\ tpc' = "wrap"
    /\ UNCHANGED <<user_code, called, cleaned_lines, in_run_function, base_indent, origin,
                   wrapped_lines, inside_with_block, with_block_indent,
                   next_action_optional, current_page_context, marks, wrapped, result>>
    /\ UNCHANGED <<mvars, nvars, rvars, xvars, wvars, lvars, evars>>

\* one iteration of `while i < len(lines)` of _wrap_actions_for_resilience
WrapLine ==
    /\ tpc = "wrap"
    /\ pos <= Len(lines)
    /\ SetWrapLocals(WrapIteration(WrapLocals, lines[pos]))
    /\ pos' = pos + 1
    /\ UNCHANGED <<user_code, called, tpc, lines, cleaned_lines, in_run_function,
                   base_indent, origin, wrapped, result>>
    /\ UNCHANGED <<mvars, nvars, rvars, xvars, wvars, lvars, evars>>

\* `return '\n'.join(wrapped_lines)`
WrapReturn ==
    /\ tpc = "wrap"
    /\ pos > Len(lines)
    /\ result' = JoinLines(wrapped_lines)
    /\ wrapped' = TRUE
    /\ tpc' = "done"
    /\ UNCHANGED <<user_code, called, lines, pos, cleaned_lines, in_run_function, base_indent,
                   origin, wrapped_lines, inside_with_block, with_block_indent,
                   next_action_optional, current_page_context, marks>>
    /\ UNCHANGED <<mvars, nvars, rvars, xvars, wvars, lvars, evars>>

TransformerNext ==
    \/ CleanLine
    \/ CleanReturnsUserCode
    \/ CleanCallsWrap
    \/ WrapLine
    \/ WrapReturn

\* the locals of _wrap_actions_for_resilience as a call would find them if they
\* outlived the call before: nothing emitted yet, the block and marker flags as left
LocalsLeftOver ==
    [WrapLocals EXCEPT !.wrapped_lines = << >>, !.marks = << >>]

\* `wrapped_lines = []`, `inside_with_block = False`, `with_block_indent = 0`,
\* `next_action_optional = False`, `current_page_context = 'page'`: assigned at
\* the top of every call
FreshLocals == WrapStart

MaxRepeatLines == 2

\* the recordings a repeated call is given
ShortCodes ==
    {JoinLines(ls) : ls \in UNION {[1..n -> LineVocab] : n \in 1..MaxRepeatLines}}

\* recordings whose last line leaves a flag of the loop set: a marker with no
\* action after it, a with-line with no body, a handle assignment, a run function
Interleaved ==
    {JoinLines(ls) : ls \in
        {<<"#optional">>,
         <<"with page.expect_popup() as page1_info:">>,
         <<"with page.expect_popup() as page1_info:", "#optional">>,
         <<"page1 = page1_info.value">>,
         <<"def run(playwright):", "    page.get_by_text('Go').click()">>,
         <<"import re">>}}

\* the entry method is called with a text, then with another, then with the first
RepeatedInit ==
    /\ TransformerInit
    /\ user_code \in ShortCodes
    /\ pending \in {<<other, user_code>> : other \in Interleaved}
    /\ outputs = << >>

\* the call returned and the same method of the same object is called with the next
\* text: user_code is the new argument, every local is assigned anew
NextCall ==
    /\ tpc = "done"
    /\ pending # << >>
    /\ outputs' = Append(outputs, [code |-> user_code, result |-> result])
    /\ user_code' = Head(pending)
    /\ pending' = Tail(pending)
    /\ tpc' = called
    /\ lines' = EntryLines(called, Head(pending))
    /\ pos' = 1
    /\ SetCleanLocals(CleanStart)
    /\ SetWrapLocals(FreshLocals)
    /\ wrapped' = FALSE
    /\ result' = ""
    /\ UNCHANGED called
    /\ UNCHANGED <<mvars, nvars, xvars, wvars, lvars, evars>>

RepeatedNext ==
    \/ CleanLine
    \/ CleanReturnsUserCode
    \/ CleanCallsWrap
    \/ WrapLine
    \/ WrapReturn
    \/ NextCall

(***************************************************************************)
(* run_iteration of the generated script: the cleaned recording inside the *)
(* template's try, executed one statement at a time                        *)
(***************************************************************************)
DigitValue(ch) == Find("0123456789", ch) - 1

\* int() of the digits that start at place i of s
RECURSIVE NatAt(_, _, _)
NatAt(s, i, acc) ==
    IF IsDigit(At(s, i)) THEN NatAt(s, i + 1, 10 * acc + DigitValue(At(s, i))) ELSE acc

\* the numbers of a list literal, the first of which starts at place i of s
RECURSIVE ListAt(_, _)
ListAt(s, i) ==
    IF ~IsDigit(At(s, i)) THEN << >>
    ELSE <<NatAt(s, i, 0)>> \o
         (IF At(s, i + DigitRun(s, i)) = "," /\ At(s, i + DigitRun(s, i) + 1) = " "
          THEN ListAt(s, i + DigitRun(s, i) + 2)
          ELSE << >>)

RECURSIVE SumOf(_)
SumOf(seq) == IF seq = << >> THEN 0 ELSE Head(seq) + SumOf(Tail(seq))

MaxOf(S) == CHOOSE i \in S : \A j \in S : i >= j

\* `indent + line if line.strip() else ''` for every line
IndentLines(code_lines, spaces) ==
    [k \in 1..Len(code_lines) |->
        IF Strip(code_lines[k]) = "" THEN "" ELSE Spaces(spaces) \o code_lines[k]]

\* _indent_code: every line that is not blank gets `spaces` spaces in front, a blank
\* line becomes the empty line
IndentCode(code, spaces) == IndentLines(SplitLines(code), spaces)

\* `try:` and the three comment lines that stand before the cleaned code
TemplateHead ==
    <<"    try:",
      "        # ============================================================",
      "        # USER ACTIONS (cleaned of Playwright boilerplate)",
      "        # ============================================================">>

\* the body of run_iteration from its `try:` on, around the cleaned code
IterationTemplate(cleaned_code) ==
    TemplateHead
    \o IndentCode(cleaned_code, 8)
    \o <<"",
         "        print(f\"[ITERATION {iteration_number}] [OK] Done\")",
         "        return True",
         "",
         "    except Exception as e:",
         "        print(f\"[ITERATION {iteration_number}] [ERROR] Error: {e}\")",
         "        import traceback",
         "        traceback.print_exc()",
         "        return False">>

\* what kind of statement a line of the script is, told from its text
StatementKind(text) ==
    IF text = "" \/ StartsWith(text, "#") THEN "blank"
    ELSE IF StartsWith(text, "try:") THEN "try"
    ELSE IF StartsWith(text, "except PlaywrightTimeout:") THEN "except_timeout"
    ELSE IF StartsWith(text, "except Exception") \/ StartsWith(text, "except:") THEN "except_any"
    ELSE IF StartsWith(text, "for retry_attempt in range(max_retries):") THEN "for"
    ELSE IF StartsWith(text, "if retry_attempt > 0:") THEN "if_retried"
    ELSE IF StartsWith(text, "if retry_attempt == max_retries - 1:") THEN "if_last"
    ELSE IF StartsWith(text, "else:") THEN "else"
    ELSE IF StartsWith(text, "with ") THEN "with"
    ELSE IF StartsWith(text, "break") THEN "break"
    ELSE IF StartsWith(text, "continue") THEN "continue"
    ELSE IF StartsWith(text, "raise") THEN "raise"
    ELSE IF StartsWith(text, "return True") THEN "return_true"
    ELSE IF StartsWith(text, "return False") THEN "return_false"
    ELSE IF StartsWith(text, "max_retries = ") THEN "set_max_retries"
    ELSE IF StartsWith(text, "progressive_delays = [") THEN "set_delays"
    ELSE IF StartsWith(text, "delay = progressive_delays[retry_attempt - 1]") THEN "pick_delay"
    ELSE IF StartsWith(text, "time.sleep(delay)") THEN "backoff"
    ELSE IF StartsWith(text, "print(")
    THEN IF Contains(text, "(total {sum(progressive_delays)}s)") THEN "report" ELSE "plain"
    ELSE IF Contains(text, ".wait_for_load_state(") THEN "wait"
    ELSE IF Contains(text, ".scroll_into_view_if_needed(") THEN "scroll_into_view"
    ELSE IF Contains(text, ".evaluate(")
    THEN IF Contains(text, "scrollHeight / 2") THEN "scroll_mid" ELSE "scroll_bottom"
    ELSE IF StartsWith(text, "element = ") THEN "plain"
    ELSE IF IsAction(text) \/ Contains(text, ".goto(") THEN "action"
    ELSE "plain"

\* the script as the interpreter reads it: each line's indentation, kind and text
Parsed(script_lines) ==
    [k \in 1..Len(script_lines) |->
        [indent |-> LeadingSpaces(script_lines[k]),
         kind |-> StatementKind(Strip(script_lines[k])),
         text |-> Strip(script_lines[k])]]

Statements == {i \in DOMAIN script : script[i].kind # "blank"}
ScriptEnd == Len(script) + 1
ExceptKinds == {"except_timeout", "except_any"}

NextStatement(i) == MinOf({j \in Statements : j > i} \cup {ScriptEnd})

\* the first statement after i that stands no deeper than i: where the suite of i ends
BlockEnd(i) ==
    MinOf({j \in Statements : j > i /\ script[j].indent <= script[i].indent} \cup {ScriptEnd})

\* the compound statement in whose suite i stands, 0 when there is none
Header(i) ==
    IF {h \in Statements : h < i /\ script[h].indent < script[i].indent} = {} THEN 0
    ELSE MaxOf({h \in Statements : h < i /\ script[h].indent < script[i].indent})

\* the for statement around i, 0 when there is none
RECURSIVE LoopAround(_)
LoopAround(i) ==
    IF i = 0 THEN 0
    ELSE IF script[i].kind = "for" THEN i
    ELSE LoopAround(Header(i))

\* where control goes when statement i, suite and clauses included, has completed:
\* the next statement of the same suite (the except clauses after a try and the
\* else after an if are passed over), the next round of the for around it, the
\* exit of the with around it
RECURSIVE After(_)
After(i) ==
    IF BlockEnd(i) = ScriptEnd THEN [to |-> "end", at |-> 0]
    ELSE IF script[BlockEnd(i)].indent = script[i].indent
    THEN IF \/ /\ script[i].kind \in {"try"} \cup ExceptKinds
               /\ script[BlockEnd(i)].kind \in ExceptKinds
            \/ /\ script[i].kind \in {"if_retried", "if_last"}
               /\ script[BlockEnd(i)].kind = "else"
         THEN After(BlockEnd(i))
         ELSE [to |-> "line", at |-> BlockEnd(i)]
    ELSE IF script[Header(i)].kind = "for" THEN [to |-> "loop", at |-> Header(i)]
    ELSE IF script[Header(i)].kind = "with" THEN [to |-> "exit", at |-> Header(i)]
    ELSE After(Header(i))

\* an if whose condition is false: its else suite when it has one
IfFalse(i) ==
    IF /\ BlockEnd(i) # ScriptEnd
       /\ script[BlockEnd(i)].indent = script[i].indent
       /\ script[BlockEnd(i)].kind = "else"
    THEN [to |-> "line", at |-> NextStatement(BlockEnd(i))]
    ELSE After(i)

\* range(max_retries) has no further value: the for statement has completed
RECURSIVE NextRound(_, _, _)
NextRound(t, attempt, retries) ==
    IF t.to = "loop" /\ attempt + 1 >= retries
    THEN NextRound(After(t.at), attempt, retries)
    ELSE t

\* the except clause of try statement p, from clause c on, that catches e; 0 if none
RECURSIVE ClauseFor(_, _, _)
ClauseFor(p, c, e) ==
    IF c = ScriptEnd THEN 0
    ELSE IF script[c].indent # script[p].indent \/ script[c].kind \notin ExceptKinds THEN 0
    ELSE IF script[c].kind = "except_any" \/ e = "timeout" THEN c
    ELSE ClauseFor(p, BlockEnd(c), e)

\* the except clause that catches e raised by statement i; 0 when it leaves the script
RECURSIVE Handler(_, _)
Handler(i, e) ==
    IF Header(i) = 0 THEN 0
    ELSE IF /\ script[Header(i)].kind = "try"
            /\ ClauseFor(Header(i), BlockEnd(Header(i)), e) # 0
    THEN ClauseFor(Header(i), BlockEnd(Header(i)), e)
    ELSE Handler(Header(i), e)

\* the handler of run_iteration itself: `except Exception as e` of the template
Outermost(h) == h # 0 /\ script[h].indent = script[1].indent

\* control passes to target t
GoTo(t) ==
    /\ ln' = IF t.to = "line" THEN t.at ELSE IF t.to = "loop" THEN NextStatement(t.at) ELSE 0
    /\ retry_attempt' = IF t.to = "loop" THEN retry_attempt + 1 ELSE retry_attempt
    /\ exiting' = IF t.to = "exit" THEN t.at ELSE 0
    /\ UNCHANGED <<exc, thrown, uncaught, returned>>

\* statement i has completed
Completed(i) == GoTo(NextRound(After(i), retry_attempt, script_max_retries))

\* statement i raises e and nothing comes of it: the statement counts as completed
ThrowSwallowed(i, e) ==
    /\ ln' = IF After(i).to = "line" THEN After(i).at ELSE 0
    /\ exc' = e
    /\ thrown' = [at |-> i, e |-> e]
    /\ exiting' = IF After(i).to = "exit" THEN After(i).at ELSE 0
    /\ UNCHANGED <<uncaught, returned, retry_attempt>>

\* statement i raises e: control passes to the suite of the clause that catches it
Throw(i, e) ==
    /\ ln' = IF Handler(i, e) = 0 THEN 0 ELSE NextStatement(Handler(i, e))
    /\ exc' = e
    /\ thrown' = [at |-> i, e |-> e]
    /\ uncaught' = IF Handler(i, e) = 0 \/ Outermost(Handler(i, e))
                  THEN [at |-> i, e |-> e] ELSE uncaught
    /\ returned' = IF Handler(i, e) = 0 THEN "raised" ELSE returned
    /\ exiting' = 0
    /\ UNCHANGED retry_attempt

\* the locals of run_iteration and the record of what the retry loop did
Locals(retries, delays, d, evs, acts, loop) ==
    /\ script_max_retries' = retries
    /\ progressive_delays' = delays
    /\ delay' = d
    /\ events' = evs
    /\ acted' = acts
    /\ loop_at' = loop
    /\ UNCHANGED script

SameLocals == Locals(script_max_retries, progressive_delays, delay, events, acted, loop_at)

\* evs appended to the record when statement i stands in a retry loop
Logged(i, evs) == IF LoopAround(i) # 0 THEN events \o evs ELSE events

Event(op, n) == [op |-> op, n |-> n]

\* seq[k] as Python indexes a list: from 0, a negative k from the end
PyIndex(seq, k) == IF k >= 0 THEN seq[k + 1] ELSE seq[Len(seq) + k + 1]

AtStatement(kinds) ==
    /\ ln \in DOMAIN script
    /\ exiting = 0
    /\ script[ln].kind \in kinds

\* _generate_main_iteration puts the cleaned code into the template and the script
\* calls run_iteration
StartIteration ==
    /\ tpc = "done"
    /\ script = << >>
    /\ script' = Parsed(IterationTemplate(result))
    /\ ln' = 1
    /\ UNCHANGED <<exiting, retry_attempt, script_max_retries, progressive_delays, delay, exc,
                   events, acted, thrown, uncaught, loop_at, returned>>
    /\ UNCHANGED <<mvars, tvars, nvars, rvars, wvars, lvars, evars>>

\* `try:` and `with ... :` are entered
EnterSuite ==
    /\ AtStatement({"try", "with"})
    /\ GoTo([to |-> "line", at |-> NextStatement(ln)])
    /\ SameLocals
    /\ UNCHANGED <<mvars, tvars, nvars, rvars, wvars, lvars, evars>>

\* `max_retries = 5`, `progressive_delays = [5, 10, 15, 20, 30]`,
\* `delay = progressive_delays[retry_attempt - 1]`
Assign ==
    /\ AtStatement({"set_max_retries", "set_delays", "pick_delay"})
    /\ Completed(ln)
    /\ Locals(IF script[ln].kind = "set_max_retries"
              THEN NatAt(script[ln].text, Len("max_retries = ") + 1, 0) ELSE script_max_retries,
              IF script[ln].kind = "set_delays"
              THEN ListAt(script[ln].text, Len("progressive_delays = [") + 1)
              ELSE progressive_delays,
              IF script[ln].kind = "pick_delay"
              THEN PyIndex(progressive_delays, retry_attempt - 1) ELSE delay,
              events, acted, loop_at)
    /\ UNCHANGED <<mvars, tvars, nvars, rvars, wvars, lvars, evars>>

\* `for retry_attempt in range(max_retries):` is reached
ForLoop ==
    /\ AtStatement({"for"})
    /\ IF script_max_retries > 0
       THEN /\ ln' = NextStatement(ln)
            /\ retry_attempt' = 0
            /\ UNCHANGED <<exiting, exc, thrown, uncaught, returned>>
       ELSE GoTo(After(ln))
    /\ Locals(script_max_retries, progressive_delays, delay, << >>, acted, ln)
    /\ UNCHANGED <<mvars, tvars, nvars, rvars, wvars, lvars, evars>>

\* `if retry_attempt > 0:` and `if retry_attempt == max_retries - 1:`
Branch ==
    /\ AtStatement({"if_retried", "if_last"})
    /\ IF \/ script[ln].kind = "if_retried" /\ retry_attempt > 0
          \/ script[ln].kind = "if_last" /\ retry_attempt = script_max_retries - 1
       THEN GoTo([to |-> "line", at |-> NextStatement(ln)])
       ELSE GoTo(NextRound(IfFalse(ln), retry_attempt, script_max_retries))
    /\ SameLocals
    /\ UNCHANGED <<mvars, tvars, nvars, rvars, wvars, lvars, evars>>

\* `break`: the for statement around it has completed
Break ==
    /\ AtStatement({"break"})
    /\ Completed(LoopAround(ln))
    /\ SameLocals
    /\ UNCHANGED <<mvars, tvars, nvars, rvars, wvars, lvars, evars>>

\* `continue`: the next round of the for statement around it
Continue ==
    /\ AtStatement({"continue"})
    /\ GoTo(NextRound([to |-> "loop", at |-> LoopAround(ln)], retry_attempt, script_max_retries))
    /\ SameLocals
    /\ UNCHANGED <<mvars, tvars, nvars, rvars, wvars, lvars, evars>>

\* a bare `raise` in a handler raises the exception being handled
Reraise ==
    /\ AtStatement({"raise"})
    /\ Throw(ln, exc)
    /\ SameLocals
    /\ UNCHANGED <<mvars, tvars, nvars, rvars, wvars, lvars, evars>>

\* `return True` after the last action, `return False` in the handler
Return ==
    /\ AtStatement({"return_true", "return_false"})
    /\ returned' = IF script[ln].kind = "return_true" THEN "True" ELSE "False"
    /\ ln' = 0
    /\ UNCHANGED <<exiting, retry_attempt, exc, thrown, uncaught>>
    /\ SameLocals
    /\ UNCHANGED <<mvars, tvars, nvars, rvars, wvars, lvars, evars>>

\* a print, a fixed pause, an assignment of a locator; `time.sleep(delay)`; the
\* print of the final uncaught with its total
Plain ==
    /\ AtStatement({"plain", "backoff", "report"})
    /\ Completed(ln)
    /\ Locals(script_max_retries, progressive_delays, delay,
              IF script[ln].kind = "backoff" THEN Logged(ln, <<Event("sleep", delay)>>)
              ELSE IF script[ln].kind = "report"
              THEN Logged(ln, <<Event("reported", SumOf(progressive_delays))>>)
              ELSE events,
              acted, loop_at)
    /\ UNCHANGED <<mvars, tvars, nvars, rvars, wvars, lvars, evars>>

PlaywrightKinds == {"wait", "scroll_into_view", "scroll_bottom", "scroll_mid", "action"}

\* what a call into the browser can raise: the waits and the actions a
\* PlaywrightTimeout, an evaluate or an action another playwright Error
CanRaise(kind) ==
    CASE kind = "action" -> {"timeout", "error"}
      [] kind \in {"wait", "scroll_into_view"} -> {"timeout"}
      [] kind \in {"scroll_bottom", "scroll_mid"} -> {"error"}

\* a wait, a scroll or a recorded action returns
PlaywrightCall ==
    /\ AtStatement(PlaywrightKinds)
    /\ Completed(ln)
    /\ Locals(script_max_retries, progressive_delays, delay,
              IF script[ln].kind = "action"
              THEN Logged(ln, <<Event("attempt", retry_attempt), Event("ok", retry_attempt)>>)
              ELSE IF script[ln].kind = "scroll_into_view" THEN events
              ELSE Logged(ln, <<Event(script[ln].kind, retry_attempt)>>),
              IF script[ln].kind = "action" THEN acted \cup {ln} ELSE acted,
              loop_at)
    /\ UNCHANGED <<mvars, tvars, nvars, rvars, wvars, lvars, evars>>

\* the events of a call at statement i that raises e
RaiseEvents(i, e) ==
    (IF script[i].kind = "action" THEN <<Event("attempt", retry_attempt)>> ELSE << >>)
    \o (IF Handler(i, e) # 0 /\ script[Handler(i, e)].kind = "except_timeout"
        THEN <<Event("timeout", retry_attempt)>>
        ELSE IF script[i].kind = "action" THEN <<Event(e, retry_attempt)>> ELSE << >>)

\* a wait, a scroll or a recorded action raises
PlaywrightCallRaises ==
    /\ AtStatement(PlaywrightKinds)
    /\ \E e \in CanRaise(script[ln].kind) :
          /\ Throw(ln, e)
          /\ Locals(script_max_retries, progressive_delays, delay, Logged(ln, RaiseEvents(ln, e)),
                    IF script[ln].kind = "action" THEN acted \cup {ln} ELSE acted,
                    loop_at)
    /\ UNCHANGED <<mvars, tvars, nvars, rvars, wvars, lvars, evars>>

\* the suite of a `with page.expect_popup()` has completed and the popup came
ExitWith ==
    /\ ln = 0
    /\ exiting # 0
    /\ Completed(exiting)
    /\ SameLocals
    /\ UNCHANGED <<mvars, tvars, nvars, rvars, wvars, lvars, evars>>

\* the suite has completed and no popup came: the expectation times out
ExitWithRaises ==
    /\ ln = 0
    /\ exiting # 0
    /\ Throw(exiting, "timeout")
    /\ SameLocals
    /\ UNCHANGED <<mvars, tvars, nvars, rvars, wvars, lvars, evars>>

\* no run_iteration is running
IterationOff ==
    /\ script = << >>
    /\ ln = 0
    /\ exiting = 0
    /\ retry_attempt = 0
    /\ script_max_retries = 0
    /\ progressive_delays = << >>
    /\ delay = 0
    /\ exc = "none"
    /\ events = << >>
    /\ acted = {}
    /\ thrown = [at |-> 0, e |-> "none"]
    /\ uncaught = [at |-> 0, e |-> "none"]
    /\ loop_at = 0
    /\ returned = "none"

MaxRunLines == 2

\* the recorded lines of a run that stays on the primary page: a navigation, a click
PrimaryVocab ==
    {"page.goto('https://example.com')",
     "page.get_by_text('Go').click()"}

\* and of a run that has opened a popup: also an action on the popup with an
\* optional keyword in its description and one without
PopupVocab ==
    PrimaryVocab \cup {"page1.get_by_text('See more').click()", "page1.fill('#q', 'x')"}

\* what the recorder writes when a click opens a popup
PopupSetup ==
    <<"with page.expect_popup() as page1_info:",
      "    page.get_by_text('Go').click()",
      "page1 = page1_info.value">>

BodiesOver(vocab) == UNION {[1..n -> vocab] : n \in 1..MaxRunLines}

\* recordings as the recorder writes them: a run function and its lines indented
RunRecordings ==
    {<<"def run(playwright):">> \o Indented(Spaces(4), body) : body \in BodiesOver(PrimaryVocab)}
    \cup {<<"def run(playwright):">> \o Indented(Spaces(4), PopupSetup \o body) :
             body \in BodiesOver(PopupVocab)}

\* _generate_main_iteration(user_code) is about to clean the recording
IterationInit ==
    /\ user_code \in {JoinLines(ls) : ls \in RunRecordings}
    /\ called = "clean"
    /\ tpc = "clean"
    /\ lines = EntryLines("clean", user_code)
    /\ pos = 1
    /\ cleaned_lines = << >>
    /\ in_run_function = FALSE
    /\ base_indent = NoIndent
    /\ origin = << >>
    /\ wrapped_lines = << >>
    /\ inside_with_block = FALSE
    /\ with_block_indent = 0
    /\ next_action_optional = FALSE
    /\ current_page_context = "page"
    /\ marks = << >>
    /\ wrapped = FALSE
    /\ result = ""
    /\ SingleCall
    /\ IterationOff

IterationNext ==
    \/ CleanLine
    \/ CleanCallsWrap
    \/ WrapLine
    \/ WrapReturn
    \/ StartIteration
    \/ EnterSuite
    \/ Assign
    \/ ForLoop
    \/ Branch
    \/ Break
    \/ Continue
    \/ Reraise
    \/ Return
    \/ Plain
    \/ PlaywrightCall
    \/ PlaywrightCallRaises
    \/ ExitWith
    \/ ExitWithRaises

(***************************************************************************)
(* Properties of the Question Matcher                                      *)
(***************************************************************************)
Range(t) == {t[i] : i \in DOMAIN t}

FindReturned == pc = "done" /\ call.op = "find_question"

\* every entry of the pool scores below the threshold for question_text
AllBelowThreshold(question_text, pool) ==
    \A i \in DOMAIN pool :
       ~ScoreGE(Ratio(NormalizeText(question_text), pool[i].normalized), fuzzy_threshold)

\* C1 as stated: a find_question call whose pool holds no entry scoring at least the
\* threshold returns None, whatever the question cache holds.
C1_BelowThresholdIsNotFound ==
    (FindReturned /\ AllBelowThreshold(call.q, heading_pool)) => call.loc = NoneLoc

\* C1 amended: a find_question call that misses the question cache and whose pool holds
\* no entry scoring at least the threshold returns None.
C1_BelowThresholdIsNotFoundOnMiss ==
    (FindReturned /\ ~call.hit /\ AllBelowThreshold(call.q, heading_pool))
        => call.loc = NoneLoc

\* a miss on a non-empty pool whose entries all score below the threshold
C1_Witness ==
    /\ FindReturned
    /\ ~call.hit
    /\ heading_pool # << >>
    /\ AllBelowThreshold(call.q, heading_pool)
    /\ call.loc = NoneLoc

\* C2: once find_question has returned a heading for a normalized question, a later
\* find_question(q2, refresh=False) with the same normalized text, made before the cache
\* is cleared, returns the same heading and computes no similarity score.
C2_CacheHitShortCircuits ==
    [][ ( /\ pc = "idle"
          /\ pc' = "done"
          /\ call'.op = "find_question"
          /\ ~call'.refresh
          /\ NormalizeText(call'.q) \in DOMAIN resolved )
        => ( /\ call'.loc = resolved[NormalizeText(call'.q)]
             /\ call'.scored = 0 ) ]_mvars

\* a find_question(refresh=False) answered from the cache while the pool has entries
\* that could have been scored
C2_Witness ==
    /\ FindReturned
    /\ ~call.refresh
    /\ call.hit
    /\ call.loc # NoneLoc
    /\ call.scored = 0
    /\ heading_pool # << >>

\* C3 as stated: answer_question_optimized uses a heading that came from the question
\* cache (passes it to the button cascade, clicks near it) only if the heading's
\* visibility was checked for this call; a cached heading that is not in the refreshed
\* pool is not used.
C3_CachedHeadingRevalidated ==
    (pc \in {"aqo_cascade", "aqo_click"} /\ call.hit) => heading \in checked

RetryCall == call.op = "answer_question_with_retry"

Attempts(t) == {i \in DOMAIN t : t[i][1] = "find_question"}
Failures(t) == {i \in DOMAIN t : t[i] = <<"return", "False">>}

\* C9: answer_question_with_retry makes at most max_retries attempts, stops at the first
\* successful one and returns True, performs clear, forced refresh, wait (in this order)
\* before every attempt after the first and nothing before the first, and returns False
\* exactly when all max_retries attempts failed.
C9_RetryProtocol ==
    RetryCall =>
        /\ Cardinality(Attempts(trace)) <= call.max_retries
        /\ \A i \in Attempts(trace) :
              \/ i = 1
              \/ /\ i >= 5
                 /\ SubSeq(trace, i - 4, i - 1) =
                      << <<"return", "False">>, <<"clear", "ok">>, <<"refresh", "ok">>,
                         <<"wait_for_timeout", "ok">> >>
        /\ \A i \in DOMAIN trace :
              /\ trace[i][1] = "clear" => i > 1 /\ trace[i - 1] = <<"return", "False">>
              /\ trace[i] = <<"return", "True">> =>
                    i = Len(trace) /\ pc = "done" /\ call.result = "True"
        /\ (pc = "done" /\ call.result = "True") =>
              trace # << >> /\ trace[Len(trace)] = <<"return", "True">>
        /\ (pc = "done" /\ call.result = "False") <=>
              /\ pc = "done"
              /\ Cardinality(Attempts(trace)) = call.max_retries
              /\ Cardinality(Failures(trace)) = call.max_retries

\* the second attempt succeeded, after clear, refresh and wait
C9_Witness ==
    /\ RetryCall
    /\ pc = "done"
    /\ call.result = "True"
    /\ Cardinality(Attempts(trace)) = 2
    /\ <<"clear", "ok">> \in Range(trace)

AQOCall == call.op = "answer_question_optimized"

ProbeOk == {<<StrategyNames[k], "ok">> : k \in DOMAIN StrategyNames}
ProbeFailed == {<<StrategyNames[k], "failed">> : k \in DOMAIN StrategyNames}

\* C10: answer_question_optimized never raises, whatever the page calls do; an
\* unresolved question returns False without a probe of the cascade, an unresolved button
\* returns False without a click, a click only follows a resolved question and a resolved
\* button, and a failed click or network-idle wait is returned as False.
C10_AnswerNeverRaises ==
    AQOCall =>
        /\ call.result # "Raised"
        /\ pc = "done" => call.result \in {"True", "False"}
        /\ trace[1][1] = "find_question"
        /\ trace[1][2] = "none" =>
              trace = << <<"find_question", "none">>, <<"return", "False">> >>
        /\ \A i \in DOMAIN trace :
              trace[i][1] = "click" =>
                 /\ i > 2
                 /\ trace[1][2] \in {"hit", "found"}
                 /\ trace[i - 1] \in ProbeOk
        /\ ProbeFailed \subseteq Range(trace) =>
              /\ \A i \in DOMAIN trace : trace[i][1] # "click"
              /\ call.result = "False"
        /\ pc = "done" =>
              (call.result = "True" <=>
                  {<<"click", "ok">>, <<"wait_for_load_state", "ok">>} \subseteq Range(trace))

\* the click itself failed and the call returned False
C10_Witness ==
    /\ AQOCall
    /\ pc = "done"
    /\ call.result = "False"
    /\ <<"click", "failed">> \in Range(trace)

\* the scopes of the button cascade: parent, grandparent, great-grandparent,
\* following siblings, whole page
ScopeOrder ==
    <<"Parent (..)", "Grandparent (../..)", "Great-grandparent (../../..)",
      "Following siblings", "Global search">>

\* the steps of the trace after its last find_question
RECURSIVE SinceLastFind(_)
SinceLastFind(t) ==
    IF t = << >> \/ t[Len(t)][1] = "find_question" THEN << >>
    ELSE Append(SinceLastFind(SubSeq(t, 1, Len(t) - 1)), t[Len(t)])

IsProbe(e) == e[1] \in Range(ScopeOrder)

\* the probes of the button cascade that runs or ran last
CascadeOf(t) == SelectSeq(SinceLastFind(t), IsProbe)

\* the cascade returned None: answer_question_optimized found the heading, clicked
\* nothing and returned False
CascadeReturnedNone(t) ==
    /\ t # << >>
    /\ t[Len(t)] = <<"return", "False">>
    /\ heading # NoneLoc
    /\ \A i \in DOMAIN SinceLastFind(t) : SinceLastFind(t)[i][1] # "click"

ProbedInOrder(c) ==
    /\ Len(c) <= Len(ScopeOrder)
    /\ \A k \in 1..Len(c) : c[k][1] = ScopeOrder[k]
    /\ \A k \in 1..(Len(c) - 1) : c[k][2] = "failed"
    /\ pc = "aqo_click" => (c # << >> /\ c[Len(c)][2] = "ok" /\ button = Len(c))
    /\ pc = "aqo_cascade" => (strategy = Len(c) + 1 /\ \A k \in 1..Len(c) : c[k][2] = "failed")
    /\ CascadeReturnedNone(trace) =>
          (Len(c) = Len(ScopeOrder) /\ \A k \in 1..Len(c) : c[k][2] = "failed")

\* the pool entries whose normalized text is the normalized question, by index
ExactEntries(question_text, pool) ==
    {i \in DOMAIN pool : pool[i].normalized = NormalizeText(question_text)}

FirstOf(S) == CHOOSE i \in S : \A j \in S : i <= j

ReturnsFirstExact(question_text, pool) ==
    ExactEntries(question_text, pool) # {} =>
        call.loc = pool[FirstOf(ExactEntries(question_text, pool))].locator

\* C13: when some pool entry's normalized text is character for character the
\* normalized question, find_question returns the first such entry in pool
\* order, whatever the threshold.
C13_ExactMatchIsReturned ==
    FindReturned => ReturnsFirstExact(call.q, heading_pool)

\* C13 amended: the same, for a find_question call that finds no entry for the
\* normalized question in the question cache.
C13_ExactMatchIsReturnedOnMiss ==
    (FindReturned /\ ~call.hit) => ReturnsFirstExact(call.q, heading_pool)

\* C13 witness: a cache miss on a pool that holds the normalized question
\* twice, at threshold 1.0; the first of the two entries is returned.
C13_Witness ==
    /\ FindReturned
    /\ ~call.hit
    /\ fuzzy_threshold = 100
    /\ Cardinality(ExactEntries(call.q, heading_pool)) = 2
    /\ call.loc = heading_pool[FirstOf(ExactEntries(call.q, heading_pool))].locator

\* the similarity of the question and pool entry i
ScoreOf(question_text, pool, i) == Ratio(NormalizeText(question_text), pool[i].normalized)

\* the entries no other entry scores higher than, by index
BestEntries(question_text, pool) ==
    {i \in DOMAIN pool :
        \A j \in DOMAIN pool :
            ~ScoreGT(ScoreOf(question_text, pool, j), ScoreOf(question_text, pool, i))}

\* the best entry is returned and cached when its score reaches the threshold,
\* None is returned otherwise
ReturnsBest(question_text, pool, best) ==
    IF ScoreGE(ScoreOf(question_text, pool, best), fuzzy_threshold)
    THEN /\ call.loc = pool[best].locator
         /\ NormalizeText(question_text) \in DOMAIN question_cache
         /\ question_cache[NormalizeText(question_text)] = pool[best].locator
    ELSE call.loc = NoneLoc

\* C14: on a cache miss with a non-empty pool, at every threshold from 0 to 1,
\* find_question returns and caches the best-scoring pool entry when its score
\* is at least the threshold and returns None otherwise.
C14_BestEntryAgainstThreshold ==
    (FindReturned /\ ~call.hit /\ heading_pool # << >>) =>
        ReturnsBest(call.q, heading_pool, FirstOf(BestEntries(call.q, heading_pool)))

\* find_question(q) has returned on the demonstration page at this threshold: the
\* question was not in the cache, which held nothing else, and the pool held the
\* demonstration heading
ScenarioFind(q, threshold) ==
    /\ FindReturned
    /\ call.q = q
    /\ fuzzy_threshold = threshold
    /\ ~call.hit
    /\ DOMAIN question_cache \subseteq {KeyOf[q]}
    /\ heading_pool = PagePool[ScenarioPageIndex]

ScenarioScore(q) == Score[KeyOf[q], NormalizeText(ScenarioHeading)]
ScenarioLocator == PagePool[ScenarioPageIndex][1].locator

\* C15: at threshold 0.90 find_question("What is ur favorite color?") scores the
\* demonstration heading below 0.90 and returns None.
C15_SlangBelowStrictThreshold ==
    ScenarioFind("What is ur favorite color?", 90) =>
        /\ ~ScoreGE(ScenarioScore("What is ur favorite color?"), 90)
        /\ call.loc = NoneLoc

\* C15 as the code has it: at threshold 0.90 find_question("What is ur favorite
\* color?") scores the demonstration heading at least 0.90 and returns it.
C15_SlangReachesStrictThreshold ==
    ScenarioFind("What is ur favorite color?", 90) =>
        /\ ScoreGE(ScenarioScore("What is ur favorite color?"), 90)
        /\ call.loc = ScenarioLocator
        /\ question_cache = [k \in {KeyOf["What is ur favorite color?"]} |-> ScenarioLocator]

\* C15 witness: that call has returned the heading.
C15_Witness ==
    /\ ScenarioFind("What is ur favorite color?", 90)
    /\ call.loc = ScenarioLocator
    /\ stats.questions_found = 1

\* C16: at threshold 0.75 find_question("What's your favorite color?") scores the
\* demonstration heading at least 0.75 and returns it.
C16_ApostropheMatches ==
    ScenarioFind("What's your favorite color?", fuzzy_threshold_default) =>
        /\ ScoreGE(ScenarioScore("What's your favorite color?"), fuzzy_threshold_default)
        /\ call.loc = ScenarioLocator

\* C16 witness: that call has returned the heading from a one-entry pool.
C16_Witness ==
    /\ ScenarioFind("What's your favorite color?", fuzzy_threshold_default)
    /\ call.loc = ScenarioLocator
    /\ call.scored = 1
    /\ KeyOf["What's your favorite color?"] \in DOMAIN question_cache

HasUpper(s) == \E i \in 1..Len(s) : Contains(UpperChars, CharAt(s, i))
HasSpaceAtEnds(s) == s # "" /\ (IsSpace(CharAt(s, 1)) \/ IsSpace(CharAt(s, Len(s))))
HasSpaceRun(s) == \E i \in 1..(Len(s) - 1) : IsSpace(CharAt(s, i)) /\ IsSpace(CharAt(s, i + 1))

\* C17: _normalize_text of its own result is that result, and the result is
\* lowercase, has no whitespace at either end and no two whitespace characters
\* in a row.
C17_NormalizeIsIdempotent ==
    /\ npc \in {"once", "twice"} =>
          ~HasUpper(norm_once) /\ ~HasSpaceAtEnds(norm_once) /\ ~HasSpaceRun(norm_once)
    /\ npc = "twice" => norm_twice = norm_once

\* C17 witness: a text with capitals, punctuation between two whitespace runs and
\* whitespace at its end has been normalized twice.
C17_Witness ==
    /\ npc = "twice"
    /\ norm_text = "A \t? "
    /\ norm_once = "a"
    /\ norm_twice = "a"

BatchCall == call.op = "check_questions_batch"

\* the steps check_questions_batch has taken: the rebuild, then one lookup for each
\* question taken so far
OneRebuildThenLookups ==
    /\ Len(trace) = 1 + batch.looked_up
    /\ trace[1] = <<"refresh", "ok">>
    /\ \A i \in 2..Len(trace) : trace[i][1] = "find_question"

\* check_questions_batch is entered: the pool is rebuilt from the page
BatchEntered ==
    (pc = "idle" /\ pc' = "batch") =>
        /\ heading_pool' = BuildPool(AllPages[page], 1)
        /\ last_refresh' = now

\* a step inside check_questions_batch that is not the environment's
BatchStep == pc = "batch" /\ (batch' # batch \/ pc' # "batch")

\* C18: check_questions_batch rebuilds the heading pool exactly once, before the
\* first lookup, whatever the length of the list; no lookup rebuilds it again, even
\* when the TTL runs out while the batch is running.
C18_BatchRebuildsOnce ==
    /\ [](BatchCall => OneRebuildThenLookups)
    /\ [][BatchEntered /\ (BatchStep => UNCHANGED <<heading_pool, last_refresh>>)]_vars

\* C18 witness: a batch of two questions has returned, the TTL ran out between its
\* rebuild and a lookup, and the page changed meanwhile; the pool is not the page's.
C18_Witness ==
    /\ BatchCall
    /\ pc = "done"
    /\ batch.looked_up = 2
    /\ now - last_refresh >= cache_ttl
    /\ heading_pool # PagePool[page]
    /\ \E q \in DOMAIN batch.results : batch.results[q]

PreloadReturned == pc = "done" /\ call.op = "preload_page"

\* C19: preload_page never raises and always ends with the network-idle wait, the
\* settle delay and a forced rebuild of the heading pool behind it, in this order,
\* whether or not the network-idle wait timed out.
C19_PreloadAlwaysRefreshes ==
    PreloadReturned =>
        /\ call.result = "returned"
        /\ Len(trace) = 3
        /\ trace[1][1] = "wait_for_load_state"
        /\ trace[2][1] = "wait_for_timeout"
        /\ trace[3] = <<"refresh", "ok">>
        /\ heading_pool = PagePool[page]
        /\ last_refresh = now

IsFindEvent(e) == e[1] = "find_question"
FindEvents(t) == Len(SelectSeq(t, IsFindEvent))

\* the step makes one find_question call
FindCalled == FindEvents(trace') = FindEvents(trace) + 1

CountersKept == \A k \in DOMAIN stats : stats'[k] >= stats[k]

CountsOneSearch ==
    /\ stats'.total_searches = stats.total_searches + 1
    /\ \/ /\ stats'.cache_hits = stats.cache_hits + 1
          /\ stats'.cache_misses = stats.cache_misses
       \/ /\ stats'.cache_hits = stats.cache_hits
          /\ stats'.cache_misses = stats.cache_misses + 1

\* C20: every find_question call adds one to total_searches and one to exactly
\* one of cache_hits and cache_misses, no step lowers a counter, and
\* total_searches = cache_hits + cache_misses in every state.
C20_SearchesAreHitsPlusMisses ==
    /\ [](stats.total_searches = stats.cache_hits + stats.cache_misses)
    /\ [][CountersKept /\ (FindCalled => CountsOneSearch)]_vars

\* C20 witness: two searches have returned, one a miss that found its heading and
\* one a hit.
C20_Witness ==
    /\ pc = "done"
    /\ stats.total_searches = 2
    /\ stats.cache_hits = 1
    /\ stats.cache_misses = 1
    /\ stats.questions_found = 1

BetweenCalls == pc \in {"idle", "done"}

\* C21: between calls every search has been counted as found or as not found,
\* the searches answered from the question cache included:
\* questions_found + questions_not_found = total_searches.
C21_FoundPlusNotFoundIsTotal ==
    BetweenCalls =>
        stats.questions_found + stats.questions_not_found = stats.total_searches

\* an element query of a refresh raises on page pg
QueryFails(pg) == pg.allRaises # {} \/ \E i \in DOMAIN pg.elems : pg.elems[i].raises

\* a finished refresh_heading_pool or answer_question_optimized one of whose page
\* calls timed out or failed
FailedOperation ==
    /\ pc = "done"
    /\ \/ /\ call.op = "refresh_heading_pool"
          /\ call.rebuilt
          /\ QueryFails(AllPages[page])
       \/ /\ call.op = "answer_question_optimized"
          /\ \E i \in DOMAIN trace : trace[i][2] = "failed"

\* C22: after an operation in which a page call timed out or failed, the heading
\* pool and the question cache are what they were when the operation began.
C22_FailedCallRestoresPoolAndCache ==
    FailedOperation =>
        /\ heading_pool = call.pool_before
        /\ question_cache = call.cache_before

\* cache with the entry key -> loc stored
Stored(cache, key, loc) ==
    [k \in DOMAIN cache \cup {key} |-> IF k = key THEN loc ELSE cache[k]]

\* C22 as the code has it: a failed wait of the button cascade, click or
\* load-state wait leaves the pool and the cache as the find_question of the
\* operation left them (the pool rebuilt if the TTL had run out, the heading
\* stored if it was not cached); a refresh with a failing element query leaves the
\* cache as it was and the pool rebuilt from the elements it could read.
C22_FailedCallKeepsPoolAndCache ==
    FailedOperation =>
        IF call.op = "refresh_heading_pool"
        THEN /\ question_cache = call.cache_before
             /\ heading_pool = BuildPool(AllPages[page], 1)
        ELSE /\ heading_pool = IF call.rebuilt THEN BuildPool(AllPages[page], 1)
                               ELSE call.pool_before
             /\ question_cache = IF call.hit THEN call.cache_before
                                 ELSE Stored(call.cache_before, NormalizeText(call.q),
                                             call.loc)

\* C22 witness: answer_question_optimized rebuilt the pool and stored the heading,
\* then every scope of the cascade failed.
C22_Witness ==
    /\ FailedOperation
    /\ call.op = "answer_question_optimized"
    /\ call.result = "False"
    /\ call.rebuilt /\ ~call.hit
    /\ heading_pool # call.pool_before
    /\ question_cache # call.cache_before
    /\ Cardinality({i \in DOMAIN trace : trace[i][2] = "failed"}) = Len(StrategyNames)

\* C12 is about a step of this kind: refresh_heading_pool called and returned
RefreshStep == pc = "idle" /\ call'.op = "refresh_heading_pool"

\* the pool was read again from the page at this step
RebuiltNow ==
    /\ trace' = << <<"refresh", "ok">> >>
    /\ heading_pool' = BuildPool(Pages[page], 1)
    /\ last_refresh' = now

\* the call returned at the TTL test
NoOpRefresh ==
    /\ trace' = << >>
    /\ UNCHANGED <<heading_pool, last_refresh, question_cache, stats>>

\* C12: refresh_heading_pool(force=False) rebuilds the pool if and only if
\* at least cache_ttl seconds passed since last_refresh; otherwise it leaves
\* heading_pool, last_refresh, the question cache and the statistics as they
\* are and queries the page for nothing; refresh_heading_pool(force=True)
\* always rebuilds.
C12_RefreshHonoursTTL ==
    [][RefreshStep =>
          /\ (call'.refresh \/ now - last_refresh >= cache_ttl) => RebuiltNow
          /\ (~call'.refresh /\ now - last_refresh < cache_ttl) => NoOpRefresh
          /\ UNCHANGED <<question_cache, stats>>]_vars

\* C12 witness: a non-forced refresh four seconds after the last rebuild has
\* returned without reading the page, which shows other headings by now.
C12_Witness ==
    /\ pc = "done"
    /\ call.op = "refresh_heading_pool"
    /\ ~call.refresh
    /\ now - last_refresh = cache_ttl - 1
    /\ trace = << >>
    /\ heading_pool # << >>
    /\ heading_pool # BuildPool(Pages[page], 1)

InputLines == EntryLines(called, user_code)

\* the lines of the returned text
OutputLines == IF wrapped THEN wrapped_lines ELSE SplitLines(result)

\* what the wrap loop emitted for its line c
Block(c) ==
    SubSeq(wrapped_lines, marks[c].at,
           IF c < Len(marks) THEN marks[c + 1].at - 1 ELSE Len(wrapped_lines))

\* texts occurs in seq as a run of consecutive lines
Occurs(texts, seq) ==
    \E i \in 1..(Len(seq) - Len(texts) + 1) : SubSeq(seq, i, i + Len(texts) - 1) = texts

IsMarkerLine(line) == Facts[Strip(line)].is_optional_marker
IsCodeLine(line) == Strip(line) # "" /\ ~StartsWith(Strip(line), "#")
IsActionLine(line) == IsCodeLine(line) /\ Facts[Strip(line)].is_action

\* an interaction verb on the primary page: no popup handle, no heading lookup
PrimaryAction(line) ==
    /\ IsActionLine(line)
    /\ StartsWith(Strip(line), "page.")
    /\ ~Facts[Strip(line)].is_popup_action
    /\ ~Facts[Strip(line)].mentions_heading

\* no `#optional` and no with-scoped block opens before input line k
Unscoped(k) ==
    \A j \in 1..(k - 1) :
        /\ ~IsMarkerLine(InputLines[j])
        /\ ~Facts[Strip(InputLines[j])].opens_with

\* a try/except-PlaywrightTimeout block around code whose handler prints a warning
\* and holds no raise
CatchAndContinue(block, code) ==
    /\ Len(block) >= 5
    /\ \E ind \in Indents :
          /\ block[1] = Spaces(ind) \o "try:"
          /\ block[2] = Spaces(ind + 4) \o code
          /\ block[3] = Spaces(ind) \o "except PlaywrightTimeout:"
    /\ StartsWith(Strip(block[4]), "print(")
    /\ Contains(block[4], "[WARNING]")
    /\ \A i \in 4..Len(block) : ~Contains(block[i], "raise")

\* C4: every interaction line on the primary page of a recorded input given to
\* _clean_user_code, with no popup handle and no #optional before it, comes out
\* wrapped in a try/except-PlaywrightTimeout block whose handler logs a warning
\* and does not raise.
C4_PrimaryActionsAreWrapped ==
    (tpc = "done" /\ called = "clean") =>
        \A k \in 1..Len(InputLines) :
            (PrimaryAction(InputLines[k]) /\ Unscoped(k)) =>
                /\ wrapped
                /\ \E c \in 1..Len(origin) :
                      /\ origin[c] = k
                      /\ marks[c].kind = "resilient"
                      /\ CatchAndContinue(Block(c), Strip(InputLines[k]))

IsPage1Assignment(line) == Strip(line) = "page1 = page1_info.value"
Page1Action(line) == IsActionLine(line) /\ StartsWith(Strip(line), "page1.")

\* the head of the generated retry loop: five attempts, delays 5, 10, 15, 20, 30,
\* and a handler of PlaywrightTimeout inside the for loop
ProgressiveRetryLoop(block) ==
    /\ Len(block) >= 5
    /\ \E ind \in Indents :
          /\ block[2] = Spaces(ind) \o "max_retries = 5"
          /\ StartsWith(block[3], Spaces(ind) \o "progressive_delays = [5, 10, 15, 20, 30]")
          /\ block[4] = Spaces(ind) \o "for retry_attempt in range(max_retries):"
          /\ block[5] = Spaces(ind) \o "    try:"
          /\ \E i \in 6..Len(block) : block[i] = Spaces(ind) \o "    except PlaywrightTimeout:"

AfterAssignment(c) == IsPage1Assignment(lines[c - 1]) /\ Page1Action(lines[c])

\* C5: in _wrap_actions_for_resilience an action line on page1 that directly
\* follows `page1 = page1_info.value` is emitted as the 5-attempt
\* progressive-delay retry loop, neither as a catch-and-continue block nor bare.
C5_PopupActionAfterAssignmentIsRetried ==
    (tpc = "done" /\ wrapped) =>
        \A c \in 2..Len(lines) :
            AfterAssignment(c) =>
                /\ marks[c].kind = "retry"
                /\ ProgressiveRetryLoop(Block(c))
                /\ ~CatchAndContinue(Block(c), Strip(lines[c]))

\* C5 witness: a finished wrap with a page1 action right after the assignment,
\* emitted as the retry loop.
C5_Witness ==
    /\ tpc = "done"
    /\ wrapped
    /\ \E c \in 2..Len(lines) :
          AfterAssignment(c) /\ marks[c].kind = "retry" /\ ProgressiveRetryLoop(Block(c))

\* the input with every #optional line blanked
Unmarked(ls) == [k \in 1..Len(ls) |-> IF IsMarkerLine(ls[k]) THEN "" ELSE ls[k]]

\* the branch each line of ls takes
KindsOf(ls) == [k \in 1..Len(ls) |-> WrapFrom(WrapStart, ls, 1).marks[k].kind]

\* line c is the first action line after some #optional
NextActionAfterMarker(c) ==
    /\ IsActionLine(lines[c])
    /\ \E m \in 1..(c - 1) :
          IsMarkerLine(lines[m]) /\ \A j \in (m + 1)..(c - 1) : ~IsActionLine(lines[j])

MarksNextAction(unmarked) ==
    \A c \in 1..Len(lines) :
        ~IsMarkerLine(lines[c]) =>
            marks[c].kind = IF NextActionAfterMarker(c) THEN "resilient" ELSE unmarked[c]

\* C6: in _wrap_actions_for_resilience the first action line after a
\* #optional, whatever lines lie between, is resilient, and every other line is
\* classified as it is in the input without the marker.
C6_OptionalMarksNextAction ==
    (tpc = "done" /\ called = "wrap") => MarksNextAction(KindsOf(Unmarked(lines)))

\* a directive comment other than #optional
IsDirective(line) == HandleSpecialCommand(Strip(line), "", "page") # << >>

\* the handle most recently assigned from pageN_info.value before line k, or page
RECURSIVE ContextBefore(_, _)
ContextBefore(ls, k) ==
    IF k <= 1 THEN "page"
    ELSE IF Assignment[Sanitized[ls[k - 1]]].found
    THEN Assignment[Sanitized[ls[k - 1]]].page_var
    ELSE ContextBefore(ls, k - 1)

\* the lines that implement the directive of input line k
Expansion(k) ==
    HandleSpecialCommand(Strip(InputLines[k]), Spaces(LeadingSpaces(InputLines[k])),
                         ContextBefore(InputLines, k))

\* C7: every directive comment of the recorded input (#pauseN, #scrolldown,
\* #scroll, #scrollup, #scrollmid, #toggle_switches) is found in the output as
\* the lines implementing it, scroll and toggle aimed at the handle most
\* recently assigned from pageN_info.value, or at page.
C7_DirectivesAreExpanded ==
    tpc = "done" =>
        \A k \in 1..Len(InputLines) :
            IsDirective(InputLines[k]) => Occurs(Expansion(k), OutputLines)

\* not blank, not a comment, not the run wrapper, not import/setup/teardown
\* boilerplate and not a heading click whose name cannot be extracted
Passes(line) ==
    /\ ~Facts[Strip(line)].skipped
    /\ ~Facts[Strip(line)].run_def
    /\ ~Facts[Strip(line)].boilerplate
    /\ ~(Facts[Strip(line)].mentions_heading /\ ~Facts[Strip(line)].heading_matches)

\* C8: every input line of _clean_user_code that is not blank, a comment,
\* boilerplate or an unparseable heading click has its output, as it is or
\* wrapped or rewritten, and these outputs keep the input order, with or
\* without a `def run(playwright)` line in the input.
C8_LinesKeptInOrder ==
    (tpc = "done" /\ called = "clean") =>
        IF wrapped
        THEN /\ \A k \in 1..Len(InputLines) :
                    Passes(InputLines[k]) =>
                        \E c \in 1..Len(origin) :
                            origin[c] = k /\ marks[c].at <= Len(wrapped_lines)
             /\ \A c1, c2 \in 1..Len(origin) :
                    c1 < c2 => (origin[c1] < origin[c2] /\ marks[c1].at < marks[c2].at)
        ELSE \A k \in 1..Len(InputLines) :
                 Passes(InputLines[k]) => Occurs(<<InputLines[k]>>, OutputLines)

\* a heading click whose name the heading regex extracts
IsHeadingClick(line) == Facts[Strip(line)].heading_matches

IsCheckHeading(line) == StartsWith(Strip(line), "check_heading(")

Count(seq, Test(_)) == Len(SelectSeq(seq, Test))

\* input line k came out as the one line `expected`, bare
EmittedAsOneLine(k, expected) ==
    \E c \in 1..Len(origin) :
        /\ origin[c] = k
        /\ \A c2 \in 1..Len(origin) : origin[c2] = k => c2 = c
        /\ marks[c].kind = "bare"
        /\ Len(Block(c)) = 1
        /\ Strip(Block(c)[1]) = expected

\* C23: _clean_user_code turns the line page.get_by_role("heading", name="Step 2")
\* .click() into the one line check_heading(page, ["Step 2"], timeout=5000), and
\* every heading click with an extractable name into one check_heading line with
\* that name and timeout 5000, which the wrap stage emits as it is; the output
\* holds no other check_heading line.
C23_HeadingClickBecomesCheckHeading ==
    (tpc = "done" /\ called = "clean") =>
        /\ \A k \in 1..Len(InputLines) :
              /\ InputLines[k] = "page.get_by_role(\"heading\", name=\"Step 2\").click()" =>
                    EmittedAsOneLine(k, "check_heading(page, [\"Step 2\"], timeout=5000)")
              /\ IsHeadingClick(InputLines[k]) =>
                    EmittedAsOneLine(k, "check_heading(page, [\""
                                        \o Headings[Strip(InputLines[k])]
                                        \o "\"], timeout=5000)")
        /\ Count(OutputLines, IsCheckHeading) = Count(InputLines, IsHeadingClick)

\* C23 witness: a recording with the Step 2 click inside a with block, after a
\* popup opener; the output holds the check_heading line once.
C23_Witness ==
    /\ tpc = "done"
    /\ called = "clean"
    /\ wrapped
    /\ Len(InputLines) = 2
    /\ InputLines[1] = "with page.expect_popup() as page1_info:"
    /\ InputLines[2] = "page.get_by_role(\"heading\", name=\"Step 2\").click()"
    /\ Count(OutputLines, IsCheckHeading) = 1

\* the line operates on a popup handle pageN, N >= 1
OnPopupHandle(line) ==
    /\ StartsWith(Strip(line), "page")
    /\ DigitRun(Strip(line), 5) >= 1
    /\ At(Strip(line), 5 + DigitRun(Strip(line), 5)) = "."

\* the line opens a with-scoped popup or navigation expectation
OpensExpectation(line) ==
    /\ StartsWith(Strip(line), "with ")
    /\ Contains(Strip(line), ".expect_popup(") \/ Contains(Strip(line), ".expect_navigation(")

\* the line assigns a page handle from an expectation
AssignsHandle(line) ==
    /\ OnPopupHandle(line) = FALSE
    /\ StartsWith(Strip(line), "page")
    /\ Contains(Strip(line), "_info.value")

MustSucceed(line) ==
    \/ Contains(Strip(line), "page.goto(")
    \/ OpensExpectation(line)
    \/ AssignsHandle(line)
    \/ OnPopupHandle(line)

\* a #optional stands before wrap line c with nothing but blank lines and
\* comments between
MarkerPrecedes(c) ==
    \E m \in 1..(c - 1) :
        IsMarkerLine(lines[m]) /\ \A j \in (m + 1)..(c - 1) : ~IsCodeLine(lines[j])

\* C24: a line that navigates, opens a with-scoped expectation, assigns a page
\* handle or acts on a popup handle pageN, N >= 1, is never emitted inside a
\* catch-and-continue block, unless #optional precedes it.
C24_CriticalLinesAreNotSwallowed ==
    (tpc = "done" /\ wrapped) =>
        \A c \in 1..Len(lines) :
            (IsCodeLine(lines[c]) /\ MustSucceed(lines[c]) /\ ~MarkerPrecedes(c)) =>
                /\ marks[c].kind # "resilient"
                /\ ~CatchAndContinue(Block(c), Strip(lines[c]))

\* the three branches the classification names, told by what line c of a finished
\* wrap was turned into, at whatever indentation
HandledAs(c, branch) ==
    CASE branch = "critical" ->
            /\ IsCodeLine(lines[c])
            /\ Block(c) # << >>
            /\ \/ Strip(Block(c)[1]) = SanitizeQuotes(Strip(lines[c]))
               \/ /\ Len(Block(c)) >= 5
                  /\ Strip(Block(c)[4]) = "for retry_attempt in range(max_retries):"
                  /\ Strip(Block(c)[5]) = "try:"
      [] branch = "resilient" ->
            /\ IsCodeLine(lines[c])
            /\ Len(Block(c)) >= 4
            /\ Strip(Block(c)[1]) = "try:"
            /\ Strip(Block(c)[2]) = SanitizeQuotes(Strip(lines[c]))
            /\ Strip(Block(c)[3]) = "except PlaywrightTimeout:"
            /\ \A i \in 4..Len(Block(c)) : ~Contains(Block(c)[i], "raise")
      [] branch = "expanded directive" ->
            /\ StartsWith(Strip(lines[c]), "#")
            /\ Block(c) # << >>
            /\ Block(c) # <<lines[c]>>

Branches == {"critical", "resilient", "expanded directive"}

\* every line of a finished wrap that is not blank and not dropped was handled by
\* exactly one of the three branches
ClassificationIsTotal ==
    (tpc = "done" /\ wrapped) =>
        \A c \in 1..Len(lines) :
            (Strip(lines[c]) # "" /\ Block(c) # << >>) =>
                Cardinality({b \in Branches : HandledAs(c, b)}) = 1

\* a call that returned gave what every earlier call with the same text gave
SameInputSameOutput ==
    tpc = "done" =>
        \A i \in DOMAIN outputs : outputs[i].code = user_code => outputs[i].result = result

\* C25: classification is total and deterministic: every non-blank input line of
\* _wrap_actions_for_resilience that is not dropped is handled by exactly one of
\* the branches critical (passed through or retry-looped), resilient
\* (catch-and-continue) or expanded directive, and two runs on the same input,
\* with another input processed in between, return the same output.
C25_ClassificationTotalAndDeterministic ==
    ClassificationIsTotal /\ SameInputSameOutput

\* the wrap loop is at a code line that does not begin with `with`, a with-block is
\* open and the line stands no deeper than the line that opened it
ArrivesUnindented ==
    /\ tpc = "wrap"
    /\ pos <= Len(lines)
    /\ IsCodeLine(lines[pos])
    /\ ~StartsWith(Strip(lines[pos]), "with")
    /\ inside_with_block
    /\ LeadingSpaces(lines[pos]) <= with_block_indent

\* the wrap loop is at a line that opens a with-block
AtWithLine ==
    /\ tpc = "wrap"
    /\ pos <= Len(lines)
    /\ IsCodeLine(lines[pos])
    /\ Facts[Strip(lines[pos])].opens_with

\* the lines the step of the loop appended
Emitted == SubSeq(wrapped_lines', Len(wrapped_lines) + 1, Len(wrapped_lines'))

\* C26: in _wrap_actions_for_resilience a line inside a with-block that arrives no
\* deeper than the with-line is emitted one level (4 spaces) deeper than the
\* with-line and the block stays open; the with-line itself is emitted at the
\* indentation it came with.
C26_WithBodyIsReindented ==
    [][ /\ ArrivesUnindented =>
            /\ Emitted # << >>
            /\ LeadingSpaces(Emitted[1]) = with_block_indent + 4
            /\ \A i \in DOMAIN Emitted : LeadingSpaces(Emitted[i]) >= with_block_indent + 4
            /\ inside_with_block'
            /\ with_block_indent' = with_block_indent
        /\ AtWithLine =>
            /\ Emitted = <<SanitizeQuotes(lines[pos])>>
            /\ inside_with_block'
            /\ with_block_indent' = LeadingSpaces(lines[pos]) ]_vars

\* C26 witness: a finished wrap in which the line right after the with-line came at
\* the with-line's own indentation and stands 4 spaces deeper in the output.
C26_Witness ==
    /\ tpc = "done"
    /\ wrapped
    /\ \E c \in 2..Len(lines) :
          /\ Facts[Strip(lines[c - 1])].opens_with
          /\ IsCodeLine(lines[c])
          /\ ~StartsWith(Strip(lines[c]), "with")
          /\ LeadingSpaces(lines[c]) = LeadingSpaces(lines[c - 1])
          /\ LeadingSpaces(Block(c)[1]) = LeadingSpaces(lines[c - 1]) + 4
          /\ inside_with_block

\* the line of the wrap loop whose block holds line i of the script, 0 for a line of
\* the template: the cleaned code starts after the head of the template
BlockOf(i) ==
    IF \/ {c \in DOMAIN marks : marks[c].at <= i - Len(TemplateHead)} = {}
       \/ i - Len(TemplateHead) > Len(wrapped_lines)
    THEN 0
    ELSE MaxOf({c \in DOMAIN marks : marks[c].at <= i - Len(TemplateHead)})

\* statement i is a recorded action that the generator kept as it is
BareCritical(i) ==
    /\ i \in DOMAIN script
    /\ script[i].kind = "action"
    /\ BlockOf(i) # 0
    /\ marks[BlockOf(i)].kind = "bare"

\* the description of the recorded line of block c holds an optional keyword
JudgedOptional(c) == AnyIn(OptionalKeywords, Lower(ActionDesc(Strip(lines[c]))))

IsTimeout(ev) == ev.op = "timeout"

\* every attempt of the retry loop running, or last run, has timed out
Exhausted ==
    /\ loop_at # 0
    /\ script_max_retries > 0
    /\ Count(events, IsTimeout) = script_max_retries

\* the exception has reached the handler of run_iteration
IterationFailed == uncaught.at # 0

\* the recorded actions after statement i
LaterActions(i) == {j \in DOMAIN script : j > i /\ script[j].kind = "action" /\ BlockOf(j) > BlockOf(i)}

\* C27: when a critical action of the generated script fails (an action kept as it
\* is raises; a popup action judged non-optional has timed out on every attempt),
\* the exception reaches the handler of run_iteration: from then on no recorded
\* action is executed and run_iteration does not return True but False.
C27_CriticalFailureEndsIteration ==
    /\ [](/\ BareCritical(thrown.at) => uncaught = thrown
          /\ (Exhausted /\ ~JudgedOptional(BlockOf(loop_at))) =>
                \/ BlockOf(ln) = BlockOf(loop_at)
                \/ uncaught.e = "timeout" /\ BlockOf(uncaught.at) = BlockOf(loop_at)
          /\ IterationFailed => returned \in {"none", "False"}
          /\ (IterationFailed /\ ln = 0) => returned = "False")
    /\ [][IterationFailed => acted' = acted]_vars

\* C27 witness: run_iteration returned False after the re-raise of a popup action
\* judged non-optional, and a recorded action after it was never executed.
C27_Witness ==
    /\ returned = "False"
    /\ Exhausted
    /\ ~JudgedOptional(BlockOf(loop_at))
    /\ uncaught.at \in DOMAIN script
    /\ script[uncaught.at].kind = "raise"
    /\ LaterActions(uncaught.at) # {}
    /\ LaterActions(uncaught.at) \cap acted = {}

\* the targets of a step that leaves the block of the retry loop for what follows it
LeavesLoopFor(t) ==
    /\ ln' = (IF t.to = "line" THEN t.at ELSE 0)
    /\ exiting' = (IF t.to = "exit" THEN t.at ELSE 0)

\* every attempt has timed out and the step leaves the block of the loop
LeavesExhaustedLoop ==
    /\ Exhausted
    /\ ln \in DOMAIN script
    /\ BlockOf(ln) = BlockOf(loop_at)
    /\ ~(ln' \in DOMAIN script /\ BlockOf(ln') = BlockOf(loop_at))

\* C28: when every attempt of a popup action has timed out, what happens depends on
\* the action description alone: with an optional keyword in it the loop is left
\* without an exception and the script goes on with what follows the loop, without
\* one the timeout of the last attempt is raised again to run_iteration; whether
\* the page-state wait of the optional handler succeeds changes nothing.
C28_OptionalIsFixedAtGeneration ==
    [][ LeavesExhaustedLoop =>
            IF JudgedOptional(BlockOf(loop_at))
            THEN /\ script[ln].kind = "break"
                 /\ LeavesLoopFor(After(loop_at))
                 /\ uncaught' = uncaught
                 /\ returned' = returned
            ELSE /\ script[ln].kind = "raise"
                 /\ uncaught' = [at |-> ln, e |-> "timeout"]
                 /\ Outermost(Handler(ln, "timeout")) ]_vars

\* C28 witness: every attempt of an action described with `See more` timed out, the
\* loop was left without an exception and the recorded action after it was executed.
C28_Witness ==
    /\ Exhausted
    /\ JudgedOptional(BlockOf(loop_at))
    /\ uncaught.at = 0
    /\ \E j \in acted : BlockOf(j) > BlockOf(loop_at)

IsAttempt(ev) == ev.op = "attempt"
IsSleep(ev) == ev.op = "sleep"
IsReport(ev) == ev.op = "reported"

\* the events before place k of the record are the four steps of a retry, in order
RetryStepsBefore(k) ==
    /\ k > 4
    /\ events[k - 4].op = "sleep"
    /\ events[k - 3].op = "wait"
    /\ events[k - 2].op = "scroll_bottom"
    /\ events[k - 1].op = "scroll_mid"

\* C29: the generated retry loop executes the action at most 5 times and nothing
\* more after an attempt that did not time out; the first attempt is the first
\* thing the loop does; every later attempt comes right after the back-off sleep,
\* the wait for the load state, the scroll to the bottom and the scroll to
\* mid-page, in this order.
C29_RetryLoopOrder ==
    /\ Count(events, IsAttempt) <= 5
    /\ \A k \in DOMAIN events :
          /\ events[k].op \in {"ok", "error"} => k = Len(events)
          /\ (events[k].op = "attempt" /\ events[k].n = 0) => k = 1
          /\ (events[k].op = "attempt" /\ events[k].n > 0) => RetryStepsBefore(k)
    /\ events # << >> => events[1] = Event("attempt", 0)

\* C29 witness: the action was executed five times; the fifth attempt, made after
\* the four steps, did not time out.
C29_Witness ==
    /\ Count(events, IsAttempt) = 5
    /\ events[Len(events)].op = "ok"
    /\ RetryStepsBefore(Len(events) - 1)

\* the delays slept by the loop, in order
RECURSIVE Slept(_)
Slept(evs) ==
    IF evs = << >> THEN << >>
    ELSE (IF Head(evs).op = "sleep" THEN <<Head(evs).n>> ELSE << >>) \o Slept(Tail(evs))

\* C30: when every attempt times out, the back-off sleeps are 5, 10, 15, 20 and 30
\* seconds, each slept once, and their sum is the total of 80 s that the final
\* failure message reports.
C30_BackoffMatchesReportedTotal ==
    (Exhausted /\ Count(events, IsReport) = 1) =>
        /\ Slept(events) = <<5, 10, 15, 20, 30>>
        /\ \A k \in DOMAIN events :
              events[k].op = "reported" => events[k].n = 80 /\ events[k].n = SumOf(Slept(events))

\* the tier of a heading tag: h1 is the first, h6 the last
Tier == [h1 |-> 1, h2 |-> 2, h3 |-> 3, h4 |-> 4, h5 |-> 5, h6 |-> 6]

\* pool entry i was enumerated before entry j: an earlier tier, or the same tier and
\* an earlier place in what page.locator(tag).all() returned
Precedes(pool, i, j) ==
    \/ Tier[pool[i].level] < Tier[pool[j].level]
    \/ /\ pool[i].level = pool[j].level
       /\ pool[i].locator.nth < pool[j].locator.nth

\* pool order is tier order, then discovery order within a tier
InTierThenDiscoveryOrder(pool) ==
    \A i, j \in DOMAIN pool : i < j => Precedes(pool, i, j)

\* several entries of the pool share the maximum score for the question
SharedMaximum(question_text, pool) == Cardinality(BestEntries(question_text, pool)) > 1

\* C31 as stated: when several pool entries share the maximum score for the question,
\* the heading find_question returns is the one of them that comes first in pool
\* order, and pool order is tier order then discovery order within a tier.
C31_FirstOfTiedIsReturned ==
    /\ InTierThenDiscoveryOrder(heading_pool)
    /\ (FindReturned /\ call.loc # NoneLoc /\ SharedMaximum(call.q, heading_pool)) =>
          call.loc = heading_pool[FirstOf(BestEntries(call.q, heading_pool))].locator

\* C31 amended: the pool is always in tier order, then discovery order; a find_question
\* call that finds no entry for the normalized question in the question cache and
\* returns a heading returns, of the entries that share the maximum score, the one
\* that comes first in pool order.
C31_FirstOfTiedIsReturnedWhenScored ==
    /\ InTierThenDiscoveryOrder(heading_pool)
    /\ (FindReturned /\ ~call.hit /\ call.loc # NoneLoc
           /\ SharedMaximum(call.q, heading_pool)) =>
          call.loc = heading_pool[FirstOf(BestEntries(call.q, heading_pool))].locator

\* C31 witness: two headings of different tiers, the h4 earlier in the document than
\* the h1, share the maximum score; the h1 is returned.
C31_Witness ==
    /\ FindReturned
    /\ ~call.hit
    /\ SharedMaximum(call.q, heading_pool)
    /\ \E i, j \in BestEntries(call.q, heading_pool) :
          /\ heading_pool[i].level = "h1"
          /\ heading_pool[j].level = "h4"
          /\ call.loc = heading_pool[i].locator

\* the elements of the page a rebuild reads a text from: the tag could be enumerated,
\* the queries on the element did not raise, it was visible and its text is not
\* empty once stripped
Readable(pg) ==
    {i \in DOMAIN pg.elems :
        /\ pg.elems[i].level \notin pg.allRaises
        /\ ~pg.elems[i].raises
        /\ pg.elems[i].visible
        /\ Strip(pg.elems[i].text) # ""}

\* the place of element i among the elements of its tag, from 0
NthOfTag(pg, i) ==
    Cardinality({j \in DOMAIN pg.elems : j < i /\ pg.elems[j].level = pg.elems[i].level})

\* the pool entry of element i
EntryOf(pg, i) ==
    [locator |-> Loc(pg.elems[i].level, NthOfTag(pg, i)),
     text |-> Strip(pg.elems[i].text),
     normalized |-> NormalizeText(Strip(pg.elems[i].text)),
     level |-> pg.elems[i].level]

\* the pool holds the entry of every readable element and nothing else
HoldsExactly(pool, pg) ==
    /\ Len(pool) = Cardinality(Readable(pg))
    /\ \A i \in Readable(pg) : \E k \in DOMAIN pool : pool[k] = EntryOf(pg, i)

\* the step rebuilds the heading pool
RebuildStep ==
    \/ pc \in {"idle", "retry_attempt"} /\ pc' # pc /\ call'.rebuilt
    \/ pc \in {"retry_refresh", "preload_refresh"}

\* C32: after a rebuild the pool holds exactly the headings that were visible with a
\* non-empty text when the rebuild queried them, each with normalized =
\* _normalize_text(text); nothing of the previous pool is kept, and an element or a
\* tag whose query raises is skipped while the others are still read.
C32_RebuildHoldsExactlyReadable ==
    [][RebuildStep => HoldsExactly(heading_pool', AllPages[page])]_vars

\* C32 witness: a refresh rebuilt a pool that held other headings on a page where
\* the h1 query raises, the first h2 is invisible and the second raises on its
\* query: the pool holds the third h2 alone.
C32_Witness ==
    /\ pc = "done"
    /\ call.op = "refresh_heading_pool"
    /\ call.rebuilt
    /\ call.pool_before # << >>
    /\ AllPages[page].allRaises # {}
    /\ \E i, j \in DOMAIN AllPages[page].elems :
          /\ i < j
          /\ AllPages[page].elems[i].raises
          /\ j \in Readable(AllPages[page])
    /\ Len(heading_pool) = 1
    /\ heading_pool[1] \notin Range(call.pool_before)

\* the pool holds an entry whose similarity to the question is at least the threshold
PoolReaches(question_text, pool) ==
    \E i \in DOMAIN pool : ScoreGE(ScoreOf(question_text, pool, i), fuzzy_threshold)

\* the pool holds an entry whose similarity to the question is at least the threshold
\* and more than nothing
PoolMatches(question_text, pool) ==
    \E i \in DOMAIN pool :
        /\ ScoreGE(ScoreOf(question_text, pool, i), fuzzy_threshold)
        /\ ScoreGT(ScoreOf(question_text, pool, i), <<0, 1>>)

BatchReturned == BatchCall /\ pc = "done"

WaitsMade == Len(waits) = Cardinality({i \in DOMAIN trace : trace[i][1] = "wait_for_timeout"})

\* C33 as stated: the waits between successive attempts of answer_question_with_retry
\* grow: the wait before attempt k+1 is strictly longer than the wait before attempt k.
C33_RetryWaitsGrow ==
    RetryCall => \A k \in 1..(Len(waits) - 1) : waits[k + 1] > waits[k]

\* C33 amended: answer_question_with_retry waits once before every attempt after the
\* first, and every wait is the same 1000 ms whatever the attempt number.
C33_RetryWaitsAreConstant ==
    RetryCall =>
        /\ WaitsMade
        /\ \A k \in DOMAIN waits : waits[k] = 1000
        /\ \A k \in 1..(Len(waits) - 1) : waits[k + 1] = waits[k]

\* C33 witness: three attempts failed, with two waits of 1000 ms between them.
C33_Witness ==
    /\ RetryCall
    /\ pc = "done"
    /\ call.result = "False"
    /\ Cardinality(Attempts(trace)) = 3
    /\ waits = <<1000, 1000>>

\* a line that mentions the heading role and from which no name can be extracted
NamelessHeading(line) == MentionsHeading(Strip(line)) /\ HeadingHits(Strip(line)) = {}

HasName(line) == ~NamelessHeading(line)

\* the for loop of _clean_user_code over the lines ls, from line k on
RECURSIVE CleanFrom(_, _, _)
CleanFrom(c, ls, k) ==
    IF k > Len(ls) THEN c ELSE CleanFrom(CleanIteration(c, ls[k], k), ls, k + 1)

\* what the loop keeps of the recording when the nameless heading lines are taken out
CleanedWithout(ls) == CleanFrom(CleanStart, SelectSeq(ls, HasName), 1).cleaned_lines

CleanReturned == called = "clean" /\ tpc = "done"

\* the other lines of the recording are cleaned as they are when the nameless heading
\* lines are not there
OthersCleanedAlike == cleaned_lines = CleanedWithout(EntryLines("clean", user_code))

NoNamelessHeadingIn(code) == \A l \in Range(SplitLines(code)) : ~NamelessHeading(l)

HasCurlyQuote(text) == \E q \in CurlyQuotes : Contains(text, q)

TransformerReturned == tpc = "done"

\* C35: no line of the Transformer's output holds a typographic quote: every such
\* quote of an input line has been replaced by the plain ASCII quote, in wrapped,
\* retry-looped and passed-through lines alike.
C35_NoCurlyQuoteInOutput ==
    TransformerReturned => \A l \in Range(SplitLines(result)) : ~HasCurlyQuote(l)

\* the wrap loop is at a code line that does not begin with `with`, after a
\* with-opening line of the same input has set the flag
AtLaterCodeLine ==
    /\ tpc = "wrap"
    /\ pos <= Len(lines)
    /\ IsCodeLine(lines[pos])
    /\ ~StartsWith(Strip(lines[pos]), "with")
    /\ inside_with_block

\* the kind of the block the step of the loop appended
EmittedKind == marks'[Len(marks')].kind

InRunBody(src, k) == \E d \in 1..(k - 1) : Facts[Strip(src[d])].run_def

\* cleaned lines c1 and c2 come from statements of the run() body that stand at
\* the same indentation level in the recording
SameLevelInBody(src, c1, c2) ==
    /\ InRunBody(src, origin[c1])
    /\ InRunBody(src, origin[c2])
    /\ LeadingSpaces(src[origin[c1]]) = LeadingSpaces(src[origin[c2]])

\* C38: the loop of _clean_user_code emits all statements that sit at the same
\* indentation level in the recorded run() body at the same indentation level,
\* heading clicks rewritten to check_heading included, also when the heading
\* click is the first statement of the body.
C38_SameLevelStaysSameLevel ==
    CleanReturned =>
        \A c1, c2 \in DOMAIN origin :
            SameLevelInBody(EntryLines("clean", user_code), c1, c2)
                => LeadingSpaces(cleaned_lines[c1]) = LeadingSpaces(cleaned_lines[c2])

MatcherNext ==
    \/ \E force \in BOOLEAN : RefreshHeadingPool(force)
    \/ \E q \in Questions, refresh \in BOOLEAN : FindQuestion(q, refresh)
    \/ \E q \in Questions : AnswerQuestionOptimized(q)
    \/ ProbeStrategy
    \/ ClickButton
    \/ \E q \in Questions, m \in 0..MaxRetries :
          /\ stats.total_searches + m <= MaxSearches
          /\ AnswerQuestionWithRetry(q, m)
    \/ RetryLoop
    \/ RetryRefresh
    \/ WaitForTimeout
    \/ \E questions \in QuestionLists(MaxBatch) : CheckQuestionsBatch(questions)
    \/ BatchLookup
    \/ BatchReturn
    \/ PreloadPage
    \/ PreloadSettle
    \/ PreloadRefresh
    \/ Resume
    \/ PageChange
    \/ Tick

\* the attempts of the answer_question_with_retry call whose waits are followed
MaxWaitRetries == 3

\* one answer_question_with_retry call of MaxWaitRetries attempts on a page that
\* changes while time passes
RetryNext ==
    \/ \E q \in Questions :
          /\ stats.total_searches = 0
          /\ AnswerQuestionWithRetry(q, MaxWaitRetries)
    \/ RetryLoop
    \/ RetryRefresh
    \/ WaitForTimeout
    \/ \E q \in Questions : pc = "retry_attempt" /\ AnswerQuestionOptimized(q)
    \/ ProbeStrategy
    \/ ClickButton
    \/ Resume
    \/ PageChange
    \/ Tick

\* the matcher's variables while the Transformer runs
MatcherOff ==
    /\ page = 1
    /\ now = StartNow
    /\ fuzzy_threshold = fuzzy_threshold_default
    /\ heading_pool = << >>
    /\ question_cache = << >>
    /\ last_refresh = 0
    /\ stats = [cache_hits |-> 0, cache_misses |-> 0, questions_found |-> 0,
                questions_not_found |-> 0, total_searches |-> 0]
    /\ pc = "off"
    /\ heading = NoneLoc
    /\ strategy = 0
    /\ button = 0
    /\ retry = NoRetry
    /\ call = NoCall
    /\ checked = {}
    /\ resolved = << >>
    /\ trace = << >>
    /\ batch = NoBatch
    /\ waits = << >>

\* the matcher constructed on the page of the fuzzy-matching demonstration
ScenarioInit ==
    /\ page = ScenarioPageIndex
    /\ now = StartNow
    /\ fuzzy_threshold \in ScenarioThresholds
    /\ heading_pool = << >>
    /\ question_cache = << >>
    /\ last_refresh = 0
    /\ stats = [cache_hits |-> 0, cache_misses |-> 0, questions_found |-> 0,
                questions_not_found |-> 0, total_searches |-> 0]
    /\ pc = "idle"
    /\ heading = NoneLoc
    /\ strategy = 0
    /\ button = 0
    /\ retry = NoRetry
    /\ call = NoCall
    /\ checked = {}
    /\ resolved = << >>
    /\ trace = << >>
    /\ batch = NoBatch
    /\ waits = << >>

\* the calls of the demonstration: the page stays as it is
ScenarioNext ==
    \/ \E force \in BOOLEAN : RefreshHeadingPool(force)
    \/ \E q \in ScenarioQuestions, refresh \in BOOLEAN : FindQuestion(q, refresh)
    \/ Resume
    \/ Tick

\* no text is being normalized
NormalizerOff ==
    /\ norm_text = ""
    /\ norm_once = ""
    /\ norm_twice = ""
    /\ npc = "off"

\* every text of up to n characters
RECURSIVE TextsUpTo(_)
TextsUpTo(n) ==
    IF n = 0 THEN {""}
    ELSE TextsUpTo(n - 1) \cup {c \o t : c \in TextChars, t \in TextsUpTo(n - 1)}

NormalizerInit ==
    /\ norm_text \in TextsUpTo(MaxTextLen)
    /\ norm_once = ""
    /\ norm_twice = ""
    /\ npc = "start"

\* self._normalize_text(text)
Normalize ==
    /\ npc = "start"
    /\ norm_once' = NormalizeText(norm_text)
    /\ npc' = "once"
    /\ UNCHANGED <<norm_text, norm_twice>>
    /\ UNCHANGED <<mvars, tvars, rvars, xvars, wvars, lvars, evars>>

\* self._normalize_text(...) of what the first call returned
NormalizeAgain ==
    /\ npc = "once"
    /\ norm_twice' = NormalizeText(norm_once)
    /\ npc' = "twice"
    /\ UNCHANGED <<norm_text, norm_once>>
    /\ UNCHANGED <<mvars, tvars, rvars, xvars, wvars, lvars, evars>>

NormalizerNext == Normalize \/ NormalizeAgain

(***************************************************************************)
(* The QuestionMatcher class that generate_matcher_code writes into the    *)
(* generated script, run next to the library class: every call is made on  *)
(* both matchers against the same page at the same time.  The library      *)
(* matcher is the one of the fields above; the embedded one keeps its      *)
(* fields in `embedded`.                                                   *)
(***************************************************************************)
MaxSiblingButtons == 2
MaxOtherButtons == 1

\* the regions of the page a button of the wanted name can stand in, from the
\* heading outwards: among the heading's following siblings, elsewhere under its
\* parent, elsewhere under its grandparent, elsewhere under its great-grandparent,
\* and on the rest of the page
Regions == <<"siblings", "parent", "grandparent", "great-grandparent", "page">>

Layouts ==
    {l \in [1..Len(Regions) -> 0..MaxSiblingButtons] :
        \A r \in 2..Len(Regions) : l[r] <= MaxOtherButtons}

NoButtons == [r \in 1..Len(Regions) |-> 0]

\* a button control: the n-th of its region in document order
Control(r, n) == [region |-> Regions[r], n |-> n]
NoControl == [region |-> "None", n |-> 0]

RECURSIVE ButtonsWithin(_, _)
\* the number of buttons in the regions 1..r
ButtonsWithin(l, r) == IF r = 0 THEN 0 ELSE l[r] + ButtonsWithin(l, r - 1)

\* button.wait_for(state='visible') on a locator scoped to the regions 1..r: a locator
\* is strict, the wait raises unless exactly one button matches
OnlyButtonWithin(l, r) ==
    IF ButtonsWithin(l, r) = 1
    THEN Control(CHOOSE k \in 1..r : l[k] = 1, 1)
    ELSE NoControl

\* the same on `...locator('xpath=following-sibling::*').get_by_role(...).first`
FirstSiblingButton(l) == IF l[1] >= 1 THEN Control(1, 1) ELSE NoControl

\* what the locator of a strategy resolves to on the page
StrategyResolves(name, l) ==
    CASE name = "Parent (..)" -> OnlyButtonWithin(l, 2)
      [] name = "Grandparent (../..)" -> OnlyButtonWithin(l, 3)
      [] name = "Great-grandparent (../../..)" -> OnlyButtonWithin(l, 4)
      [] name = "Following siblings" -> FirstSiblingButton(l)
      [] name = "Global search" -> OnlyButtonWithin(l, 5)

\* the loop over the strategies list from strategy k on: the first button whose wait
\* does not raise, None after the last
RECURSIVE Cascade(_, _, _)
Cascade(names, l, k) ==
    IF k > Len(names) THEN NoControl
    ELSE IF StrategyResolves(names[k], l) # NoControl THEN StrategyResolves(names[k], l)
    ELSE Cascade(names, l, k + 1)

\* the strategies list of the embedded find_answer_button_near_question
EmbeddedStrategyNames ==
    <<"Parent (..)", "Grandparent (../..)", "Great-grandparent (../../..)", "Global search">>

\* the inner loop of the embedded refresh_heading_pool, from element i on
RECURSIVE EmbeddedLevelEntries(_, _, _)
EmbeddedLevelEntries(elems, l, i) ==
    IF i > Len(elems) THEN << >>
    ELSE LET e == elems[i]
             text == Strip(e.text)
             keep == e.level = l /\ ~e.raises /\ e.visible /\ text # ""
             entry == [locator |-> Loc(l, CountLevel(elems, l, i) - 1), text |-> text,
                       normalized |-> NormalizeText(text)]
         IN  (IF keep THEN <<entry>> ELSE << >>) \o EmbeddedLevelEntries(elems, l, i + 1)

\* its outer loop over the six tags, from tag k on
RECURSIVE EmbeddedBuildPool(_, _)
EmbeddedBuildPool(pg, k) ==
    IF k > Len(Levels) THEN << >>
    ELSE (IF Levels[k] \in pg.allRaises THEN << >>
          ELSE EmbeddedLevelEntries(pg.elems, Levels[k], 1))
         \o EmbeddedBuildPool(pg, k + 1)

EmbeddedPagePool == [p \in DOMAIN AllPages |-> EmbeddedBuildPool(AllPages[p], 1)]

\* the embedded refresh_heading_pool(force) on matcher e
EmbeddedRefresh(e, force) ==
    IF ~force /\ (now - e.last_refresh) < cache_ttl THEN e
    ELSE [e EXCEPT !.heading_pool = EmbeddedPagePool[page], !.last_refresh = now]

\* the embedded find_question once the pool is in place: the matcher after the call
\* and the locator returned
EmbeddedFindInPool(e, key, bm) ==
    IF key \in DOMAIN e.question_cache
    THEN [matcher |-> e, loc |-> e.question_cache[key]]
    ELSE IF bm.idx # 0 /\ ScoreGE(bm.score, e.fuzzy_threshold)
    THEN [matcher |->
              [e EXCEPT !.question_cache =
                            [k \in DOMAIN e.question_cache \cup {key} |->
                                IF k = key THEN e.heading_pool[bm.idx].locator
                                ELSE e.question_cache[k]]],
          loc |-> e.heading_pool[bm.idx].locator]
    ELSE [matcher |-> e, loc |-> NoneLoc]

EmbeddedFindOn(e, key) == EmbeddedFindInPool(e, key, ScorePool(e.heading_pool, key))

\* the embedded find_question(question_text, refresh) on matcher e
EmbeddedFindQuestion(e, question_text, refresh) ==
    EmbeddedFindOn(IF refresh THEN EmbeddedRefresh(e, FALSE) ELSE e, KeyOf[question_text])

NoAnswer == [op |-> "none", library |-> NoneLoc, embedded |-> NoneLoc]

\* no embedded matcher has been made
EmbeddedOff ==
    /\ embedded = [heading_pool |-> << >>, question_cache |-> << >>, last_refresh |-> 0,
                   fuzzy_threshold |-> fuzzy_threshold_default]
    /\ layout = NoButtons
    /\ answered = NoAnswer

\* `matcher = QuestionMatcher(page, fuzzy_threshold=0.75)` of the generated script,
\* on a page with some layout of buttons
EmbeddedInit ==
    /\ embedded = [heading_pool |-> << >>, question_cache |-> << >>, last_refresh |-> 0,
                   fuzzy_threshold |-> fuzzy_threshold_default]
    /\ layout \in Layouts
    /\ answered = NoAnswer

\* refresh_heading_pool(force) on both matchers
BothRefresh(force) ==
    /\ pc = "idle"
    /\ heading_pool' = PoolAfterRefresh(force)
    /\ last_refresh' = LastAfterRefresh(force)
    /\ embedded' = EmbeddedRefresh(embedded, force)
    /\ answered' = [op |-> "refresh_heading_pool", library |-> NoneLoc, embedded |-> NoneLoc]
    /\ UNCHANGED <<page, now, fuzzy_threshold, question_cache, stats, pc, heading, strategy,
                   button, retry, call, checked, resolved, trace, batch, layout>>
    /\ UNCHANGED <<tvars, nvars, rvars, xvars, wvars, lvars>>

\* what both find_question calls returned
BothFound(question_text, lib, emb) ==
    /\ ApplyFind(question_text, lib)
    /\ embedded' = emb.matcher
    /\ answered' = [op |-> "find_question", library |-> lib.loc, embedded |-> emb.loc]

\* find_question(question_text, refresh) on both matchers
BothFind(question_text, refresh) ==
    /\ pc = "idle"
    /\ stats.total_searches < MaxSearches
    /\ BothFound(question_text, FindQuestionResult(question_text, refresh),
                 EmbeddedFindQuestion(embedded, question_text, refresh))
    /\ UNCHANGED <<page, now, fuzzy_threshold, pc, heading, strategy, button, retry, call,
                   trace, batch, layout>>
    /\ UNCHANGED <<tvars, nvars, rvars, xvars, wvars, lvars>>

\* find_answer_button_near_question on both matchers, each with the heading its own
\* find_question has just returned
BothFindButton ==
    /\ pc = "idle"
    /\ answered.op = "find_question"
    /\ answered.library # NoneLoc
    /\ answered.embedded # NoneLoc
    /\ answered' = [op |-> "find_answer_button_near_question",
                    library |-> Cascade(StrategyNames, layout, 1),
                    embedded |-> Cascade(EmbeddedStrategyNames, layout, 1)]
    /\ UNCHANGED <<mvars, embedded, layout>>
    /\ UNCHANGED <<tvars, nvars, rvars, xvars, wvars, lvars>>

EmbeddedNext ==
    \/ \E force \in BOOLEAN : BothRefresh(force)
    \/ \E q \in Questions, refresh \in BOOLEAN : BothFind(q, refresh)
    \/ BothFindButton
    \/ PageChange
    \/ Tick

\* C40: the QuestionMatcher embedded by generate_matcher_code behaves as the library
\* class does: after every refresh_heading_pool, find_question and
\* find_answer_button_near_question made on both against the same page, both have
\* returned the same heading and resolved the same button control.
C40_EmbeddedMatcherEquivalent ==
    answered.library = answered.embedded

(***************************************************************************)
(* The main loop of the generated script: `for iteration_number, data_row  *)
(* in enumerate(csv_data, 1)`, one action per call of a row.  The sleeps   *)
(* and prints change nothing that is counted and are left out.             *)
(***************************************************************************)
MaxRows == 3

\* the loop has not been entered
MainOff ==
    /\ csv_rows = 0
    /\ iteration_number = 0
    /\ success_count = 0
    /\ fail_count = 0
    /\ profile_uuid = "None"
    /\ main_pc = "off"

\* main() has loaded a non-empty csv_data and set both counters to 0
MainInit ==
    /\ csv_rows \in 1..MaxRows
    /\ iteration_number = 0
    /\ success_count = 0
    /\ fail_count = 0
    /\ profile_uuid = "None"
    /\ main_pc = "for"

\* `fail_count += 1` followed by `continue`, or the except clause: the row is over
RowFailed ==
    /\ fail_count' = fail_count + 1
    /\ main_pc' = "for"
    /\ UNCHANGED <<csv_rows, iteration_number, success_count>>

\* the for statement takes the next row
NextRow ==
    /\ main_pc = "for"
    /\ iteration_number < csv_rows
    /\ iteration_number' = iteration_number + 1
    /\ profile_uuid' = "None"
    /\ main_pc' = "create_profile"
    /\ UNCHANGED <<csv_rows, success_count, fail_count>>
    /\ UNCHANGED <<mvars, tvars, nvars, rvars, xvars, wvars, evars>>

\* profile_uuid = create_profile(profile_title): the function catches every
\* exception of its request and returns None then
CreateProfile ==
    /\ main_pc = "create_profile"
    /\ \E uuid \in {"None", "uuid"} :
          /\ profile_uuid' = uuid
          /\ IF uuid = "None" THEN RowFailed
             ELSE /\ main_pc' = "start_profile"
                  /\ UNCHANGED <<csv_rows, iteration_number, success_count, fail_count>>
    /\ UNCHANGED <<mvars, tvars, nvars, rvars, xvars, wvars, evars>>

\* start_data = start_profile(profile_uuid) and the test of its ws_endpoint
StartProfile ==
    /\ main_pc = "start_profile"
    /\ \E start_data \in {"None", "no_endpoint", "endpoint"} :
          IF start_data = "endpoint"
          THEN /\ main_pc' = "connect_over_cdp"
               /\ UNCHANGED <<csv_rows, iteration_number, success_count, fail_count>>
          ELSE RowFailed
    /\ UNCHANGED profile_uuid
    /\ UNCHANGED <<mvars, tvars, nvars, rvars, xvars, wvars, evars>>

\* playwright.chromium.connect_over_cdp(debug_url) and the page set-up after it;
\* what they raise lands in `except Exception`
ConnectOverCDP ==
    /\ main_pc = "connect_over_cdp"
    /\ \E outcome \in {"ok", "raises"} :
          IF outcome = "ok"
          THEN /\ main_pc' = "run_iteration"
               /\ UNCHANGED <<csv_rows, iteration_number, success_count, fail_count>>
          ELSE RowFailed
    /\ UNCHANGED profile_uuid
    /\ UNCHANGED <<mvars, tvars, nvars, rvars, xvars, wvars, evars>>

\* result = run_iteration(...), which returns True or False, and the count of it
RunIteration ==
    /\ main_pc = "run_iteration"
    /\ \E iteration_result \in BOOLEAN :
          IF iteration_result
          THEN /\ success_count' = success_count + 1
               /\ UNCHANGED fail_count
          ELSE /\ fail_count' = fail_count + 1
               /\ UNCHANGED success_count
    /\ main_pc' = "browser_close"
    /\ UNCHANGED <<csv_rows, iteration_number, profile_uuid>>
    /\ UNCHANGED <<mvars, tvars, nvars, rvars, xvars, wvars, evars>>

\* browser.close() and the exit of `with sync_playwright()`, inside the same try
BrowserClose ==
    /\ main_pc = "browser_close"
    /\ \E outcome \in {"ok", "raises"} :
          IF outcome = "ok"
          THEN /\ main_pc' = "stop_profile"
               /\ UNCHANGED <<csv_rows, iteration_number, success_count, fail_count>>
          ELSE RowFailed
    /\ UNCHANGED profile_uuid
    /\ UNCHANGED <<mvars, tvars, nvars, rvars, xvars, wvars, evars>>

\* stop_profile(profile_uuid): the function catches every exception of its request
StopProfile ==
    /\ main_pc = "stop_profile"
    /\ main_pc' = "for"
    /\ UNCHANGED <<csv_rows, iteration_number, success_count, fail_count, profile_uuid>>
    /\ UNCHANGED <<mvars, tvars, nvars, rvars, xvars, wvars, evars>>

\* the rows are exhausted and main() prints its totals
MainReturn ==
    /\ main_pc = "for"
    /\ iteration_number = csv_rows
    /\ main_pc' = "returned"
    /\ UNCHANGED <<csv_rows, iteration_number, success_count, fail_count, profile_uuid>>
    /\ UNCHANGED <<mvars, tvars, nvars, rvars, xvars, wvars, evars>>

MainNext ==
    \/ NextRow
    \/ CreateProfile
    \/ StartProfile
    \/ ConnectOverCDP
    \/ RunIteration
    \/ BrowserClose
    \/ StopProfile
    \/ MainReturn

\* the loop stands between two rows, or after the last one: iteration_number rows
\* have been processed
BetweenRows == main_pc \in {"for", "returned"}

\* C39: in the generated main loop each CSV row is counted exactly once: after every
\* processed row success_count + fail_count equals the number of rows processed so
\* far, whichever step of the row fails.
C39_EachRowCountedOnce ==
    BetweenRows => success_count + fail_count = iteration_number

\* the Question Matcher on its own
Init == MatcherInit /\ TransformerOff /\ NormalizerOff /\ SingleCall /\ IterationOff /\ MainOff /\ EmbeddedOff
Spec == Init /\ [][MatcherNext]_vars

\* answer_question_with_retry through all its attempts, on a matcher constructed with
\* the default threshold
InitW == Init /\ fuzzy_threshold = fuzzy_threshold_default
SpecW == InitW /\ [][RetryNext]_vars

\* the Code Transformer on its own
InitT == TransformerInit /\ MatcherOff /\ NormalizerOff /\ SingleCall /\ IterationOff /\ MainOff /\ EmbeddedOff
SpecT == InitT /\ [][TransformerNext]_vars

\* the fuzzy-matching demonstration
InitS == ScenarioInit /\ TransformerOff /\ NormalizerOff /\ SingleCall /\ IterationOff /\ MainOff /\ EmbeddedOff
SpecS == InitS /\ [][ScenarioNext]_vars

\* the Code Transformer on recordings with typographic quotes
InitQ == TransformerCalled(QuoteCodes) /\ MatcherOff /\ NormalizerOff /\ SingleCall /\ IterationOff /\ MainOff /\ EmbeddedOff
SpecQ == InitQ /\ [][TransformerNext]_vars

\* the Code Transformer on recordings of an indented run() body with heading clicks
InitH == TransformerCalled(HeadingCodes) /\ MatcherOff /\ NormalizerOff /\ SingleCall /\ IterationOff /\ MainOff /\ EmbeddedOff
SpecH == InitH /\ [][TransformerNext]_vars

\* the Code Transformer called three times over
InitD == RepeatedInit /\ MatcherOff /\ NormalizerOff /\ IterationOff /\ MainOff /\ EmbeddedOff
SpecD == InitD /\ [][RepeatedNext]_vars

\* the generated run_iteration, from the recording to its return
InitR == IterationInit /\ MatcherOff /\ NormalizerOff /\ MainOff /\ EmbeddedOff
SpecR == InitR /\ [][IterationNext]_vars

\* _normalize_text on its own
InitN == NormalizerInit /\ MatcherOff /\ TransformerOff /\ SingleCall /\ IterationOff /\ MainOff /\ EmbeddedOff
SpecN == InitN /\ [][NormalizerNext]_vars

\* the main loop of the generated script over its rows
InitM ==
    /\ MainInit /\ MatcherOff /\ TransformerOff /\ NormalizerOff /\ SingleCall
    /\ IterationOff /\ EmbeddedOff
SpecM == InitM /\ [][MainNext]_vars

\* the embedded matcher next to the library matcher, both made with the threshold of
\* the generated script
InitE ==
    /\ MatcherInit /\ fuzzy_threshold = fuzzy_threshold_default /\ EmbeddedInit
    /\ TransformerOff /\ NormalizerOff /\ SingleCall /\ IterationOff /\ MainOff
SpecE == InitE /\ [][EmbeddedNext]_vars
====
